---- MODULE Spec2Model ----
(***************************************************************************)
(* go-novel-reader: the narration loop of main.go (handleRead, handleNext, *)
(* handlePrev), the library commands, the exit flush (saveOnExit) and the  *)
(* signal listener, over the parser of novel/parser.go and the progress    *)
(* store of the config package.                                            *)
(*                                                                         *)
(* Texts are sequences of one-character strings.  The durable store is the *)
(* pair of files config.json / progress.json; a save replaces the file.    *)
(* One process runs one command; the signal listener is a second thread of *)
(* that process and shares its memory without synchronisation.             *)
(***************************************************************************)
EXTENDS Integers, Sequences, FiniteSets, TLC

\* ------------------------------------------------------------------------
\* Texts
\* ------------------------------------------------------------------------
NL == "\n"
SP == " "
IDSP == "_"  \* stands for U+3000 (ideographic space): unicode space, not \s

\* unicode.IsSpace, as used by strings.TrimSpace
IsSpace(c) == c \in {SP, NL, "\t", "\r", IDSP}

\* \s of Go's regexp (RE2): [\t\n\f\r ]
IsReSpace(c) == c \in {SP, NL, "\t", "\r"}

IsDigit(c) == c \in {"0", "1", "2", "3", "4", "5", "6", "7", "8", "9"}

RECURSIVE TrimLeft(_)
TrimLeft(s) ==
  IF s = <<>> THEN <<>>
  ELSE IF IsSpace(Head(s)) THEN TrimLeft(Tail(s)) ELSE s

RECURSIVE TrimRight(_)
TrimRight(s) ==
  IF s = <<>> THEN <<>>
  ELSE IF IsSpace(s[Len(s)]) THEN TrimRight(SubSeq(s, 1, Len(s) - 1)) ELSE s

\* strings.TrimSpace
TrimSpace(s) == TrimRight(TrimLeft(s))

\* strings.Split(s, sep) for a one-character separator: every separator
\* ends a piece, so n separators give n+1 pieces (empty pieces kept).
RECURSIVE SplitOn(_, _, _)
SplitOn(s, sep, cur) ==
  IF s = <<>> THEN <<cur>>
  ELSE IF Head(s) = sep THEN <<cur>> \o SplitOn(Tail(s), sep, <<>>)
  ELSE SplitOn(Tail(s), sep, Append(cur, Head(s)))

StringsSplit(s, sep) == SplitOn(s, sep, <<>>)

\* bufio.Scanner with ScanLines: lines end at "\n", one trailing "\r" is
\* dropped, and a final empty line (text ending in "\n", or empty text)
\* is not delivered.
DropCR(l) == IF l # <<>> /\ l[Len(l)] = "\r" THEN SubSeq(l, 1, Len(l) - 1) ELSE l

ScanLines(s) ==
  LET raw == StringsSplit(s, NL)
      kept == IF raw[Len(raw)] = <<>> THEN SubSeq(raw, 1, Len(raw) - 1) ELSE raw
  IN [i \in 1..Len(kept) |-> DropCR(kept[i])]

\* regexp.Split(s, -1) for segmentSeparator = `\n+`: an empty text gives one
\* empty piece; otherwise the pieces between maximal runs of newlines, with
\* an empty first (last) piece when the text starts (ends) with a newline.
RECURSIVE SplitRuns(_, _, _)
SplitRuns(s, cur, inRun) ==
  IF s = <<>> THEN <<cur>>
  ELSE IF Head(s) = NL
       THEN IF inRun THEN SplitRuns(Tail(s), cur, TRUE)
            ELSE <<cur>> \o SplitRuns(Tail(s), <<>>, TRUE)
       ELSE SplitRuns(Tail(s), Append(cur, Head(s)), FALSE)

\* a separator of two or more newlines (`\n{2,}`) in place of `\n+`:
\* run counts the newlines just seen, up to two
RECURSIVE SplitBlank(_, _, _)
SplitBlank(s, cur, run) ==
  IF s = <<>>
  THEN IF run = 0 THEN <<cur>>
       ELSE IF run = 1 THEN <<Append(cur, NL)>> ELSE <<cur, <<>>>>
  ELSE IF Head(s) = NL
       THEN SplitBlank(Tail(s), cur, IF run = 0 THEN 1 ELSE 2)
       ELSE IF run = 0 THEN SplitBlank(Tail(s), Append(cur, Head(s)), 0)
            ELSE IF run = 1
                 THEN SplitBlank(Tail(s), cur \o <<NL, Head(s)>>, 0)
                 ELSE <<cur>> \o SplitBlank(Tail(s), <<Head(s)>>, 0)

segmentSeparatorSplit_BlankLines(s) == SplitBlank(s, <<>>, 0)

segmentSeparatorSplit(s) == SplitRuns(s, <<>>, FALSE)

RECURSIVE Join(_, _)
Join(lines, sep) ==
  IF lines = <<>> THEN <<>>
  ELSE IF Len(lines) = 1 THEN lines[1]
  ELSE lines[1] \o <<sep>> \o Join(Tail(lines), sep)

\* ------------------------------------------------------------------------
\* novel/parser.go
\* ------------------------------------------------------------------------
\* Stand-ins for the CJK characters of the "chinese" expression:
\* "D" for the ordinal prefix, "N" for a CJK numeral, "Z" for one of the
\* four structural words.
ChapterWord == <<"C", "h", "a", "p", "t", "e", "r">>

RECURSIVE SkipReSpace(_)
SkipReSpace(s) ==
  IF s = <<>> THEN <<>>
  ELSE IF IsReSpace(Head(s)) THEN SkipReSpace(Tail(s)) ELSE s

Drop(s, n) == SubSeq(s, n + 1, Len(s))

HasNL(s) == \E i \in 1..Len(s) : s[i] = NL

StartsWith(s, w) == Len(s) >= Len(w) /\ SubSeq(s, 1, Len(w)) = w

RECURSIVE RunLen(_, _)
RunLen(s, cls) ==
  IF s = <<>> THEN 0
  ELSE IF Head(s) \in cls THEN 1 + RunLen(Tail(s), cls) ELSE 0

Digits == {"0", "1", "2", "3", "4", "5", "6", "7", "8", "9"}

\* ^\s*D\s*[N\d]+\s*[Z].*$
MatchChinese(l) ==
  LET a == SkipReSpace(l) IN
  /\ a # <<>> /\ a[1] = "D"
  /\ LET b == SkipReSpace(Tail(a))
         n == RunLen(b, Digits \cup {"N"})
         d == SkipReSpace(Drop(b, n))
     IN n >= 1 /\ d # <<>> /\ d[1] = "Z" /\ ~HasNL(d)

\* ^\s*Chapter\s+\d+.*$
MatchEnglish(l) ==
  LET a == SkipReSpace(l) IN
  /\ StartsWith(a, ChapterWord)
  /\ LET b == Drop(a, Len(ChapterWord))
         c == SkipReSpace(b)
     IN b # <<>> /\ IsReSpace(b[1]) /\ c # <<>> /\ IsDigit(c[1]) /\ ~HasNL(c)

\* ^\s*#{1,6}\s+.*$
MatchMarkdown(l) ==
  LET a == SkipReSpace(l)
      h == RunLen(a, {"#"})
      b == Drop(a, h)
  IN h >= 1 /\ h <= 6 /\ b # <<>> /\ IsReSpace(b[1]) /\ ~HasNL(SkipReSpace(b))

Formats == {"chinese", "english", "markdown"}

\* ChapterRegexes[name].MatchString(l)
MatchString(name, l) ==
  CASE name = "chinese" -> MatchChinese(l)
    [] name = "english" -> MatchEnglish(l)
    [] OTHER -> MatchMarkdown(l)

detectBufferSize == 1048576

\* scores[format] after the scan of the sample (lines 45-62)
Scores(content) ==
  LET sample == SubSeq(content, 1, IF Len(content) < detectBufferSize
                                   THEN Len(content) ELSE detectBufferSize)
      lines == StringsSplit(sample, NL)
      trimmed == [i \in 1..Len(lines) |-> TrimSpace(lines[i])]
  IN [f \in Formats |->
        Cardinality({i \in 1..Len(lines) :
                       trimmed[i] # <<>> /\ MatchString(f, trimmed[i])})]

\* BestOver with >= for > in the comparison of line 69
RECURSIVE BestOver_NotStrict(_, _, _)
BestOver_NotStrict(order, scores, acc) ==
  IF order = <<>> THEN acc
  ELSE LET f == Head(order) IN
       BestOver_NotStrict(Tail(order), scores,
                          IF scores[f] >= acc[2] THEN <<f, scores[f]>> ELSE acc)

\* The selection loop (lines 65-76) run over the map in one iteration order:
\* the pair <<bestFormat, maxScore>> after the formats of `order`.
RECURSIVE BestOver(_, _, _)
BestOver(order, scores, acc) ==
  IF order = <<>> THEN acc
  ELSE LET f == Head(order) IN
       BestOver(Tail(order), scores,
                IF scores[f] > acc[2] THEN <<f, scores[f]>> ELSE acc)

Orders(S) == {o \in [1..Cardinality(S) -> S] : \A i, j \in DOMAIN o : i # j => o[i] # o[j]}

\* DetectFormat without the markdown fallback of lines 83-86
DetectFormat_NoFallback(content) ==
  LET scores == Scores(content)
      keys == {f \in Formats : scores[f] >= 1}
  IN { BestOver(o, scores, <<"", 1>>)[1] : o \in Orders(keys) }

\* DetectFormat: the set of results it can return.  A Go map is ranged over
\* in an unspecified order, so every order of the keys of `scores` (the
\* formats with at least one match) is a possible run.  "" is the error.
DetectFormat(content) ==
  LET scores == Scores(content)
      keys == {f \in Formats : scores[f] >= 1}
  IN { LET best == BestOver(o, scores, <<"", 1>>) IN
       IF best[1] = ""
       THEN IF scores["markdown"] >= 1 THEN "markdown" ELSE ""
       ELSE best[1]
       : o \in Orders(keys) }

\* ParseLines without the reset of currentContent at a heading (line 130)
RECURSIVE ParseLines_NoReset(_, _, _)
ParseLines_NoReset(lines, name, st) ==
  IF lines = <<>> THEN st
  ELSE LET line == Head(lines) IN
       ParseLines_NoReset(Tail(lines), name,
         IF MatchString(name, line)
         THEN [chapters |-> IF st.first THEN st.chapters
                            ELSE Append(st.chapters,
                                        [Title |-> TrimSpace(st.title),
                                         Content |-> TrimSpace(st.content)]),
               title |-> line, content |-> st.content, first |-> FALSE]
         ELSE IF st.first THEN st
              ELSE [st EXCEPT !.content = st.content \o line \o <<NL>>])

\* ParseNovel: the scan loop (lines 117-139) as a fold over the lines.
\* st = [chapters, title, content, first]
RECURSIVE ParseLines(_, _, _)
ParseLines(lines, name, st) ==
  IF lines = <<>> THEN st
  ELSE LET line == Head(lines) IN
       ParseLines(Tail(lines), name,
         IF MatchString(name, line)
         THEN [chapters |-> IF st.first THEN st.chapters
                            ELSE Append(st.chapters,
                                        [Title |-> TrimSpace(st.title),
                                         Content |-> TrimSpace(st.content)]),
               title |-> line, content |-> <<>>, first |-> FALSE]
         ELSE IF st.first THEN st
              ELSE [st EXCEPT !.content = st.content \o line \o <<NL>>])

\* ParseNovel without the append of the last chapter (lines 141-147)
ParseNovel_NoLast(content, name) ==
  ParseLines(ScanLines(content), name,
             [chapters |-> <<>>, title |-> <<>>, content |-> <<>>,
              first |-> TRUE]).chapters

\* ParseNovel: the chapters; the empty sequence stands for the error
\* "no chapters found".
ParseNovel(content, name) ==
  LET st == ParseLines(ScanLines(content), name,
                       [chapters |-> <<>>, title |-> <<>>, content |-> <<>>,
                        first |-> TRUE])
  IN IF st.first THEN <<>>
     ELSE Append(st.chapters, [Title |-> TrimSpace(st.title),
                               Content |-> TrimSpace(st.content)])

\* ------------------------------------------------------------------------
\* The files on disk (fixed while the tool runs)
\* ------------------------------------------------------------------------
\* "a": three markdown chapters; the first has a whitespace-only line
\* between its two paragraphs, the second has no body.
\* "b": one chapter with one paragraph.
FileA == Join(<< <<"#", SP, "1">>, <<"x">>, <<SP>>, <<"y">>,
                 <<"#", SP, "2">>,
                 <<"#", SP, "3">>, <<"z">> >>, NL) \o <<NL>>

FileB == Join(<< <<"#", SP, "1">>, <<"x">> >>, NL) \o <<NL>>

\* the periodic save of lines 474-478
SaveEvery == 20

\* "l": three markdown chapters, the second long enough for the periodic
\* save: the first of two paragraphs, the second of a paragraph, a
\* whitespace-only line and SaveEvery more paragraphs, the third a heading
\* with nothing under it.
FileL ==
  Join(<< <<"#", SP, "1">>, <<"x">>, <<"x">> >>
       \o << <<"#", SP, "2">>, <<"y">>, <<SP>> >>
       \o [i \in 1..SaveEvery |-> <<"y">>]
       \o << <<"#", SP, "3">> >>, NL) \o <<NL>>

\* "c": no heading of any format.
\* "d": one markdown heading behind an ideographic space, which
\* strings.TrimSpace removes before DetectFormat matches the line and which
\* `^\s*` does not match when ParseNovel matches the line as it is.
FileC == <<"x", NL>>
FileD == <<IDSP, "#", SP, "1", NL, "x", NL>>

Paths == {"a", "b"}

\* the paths given to add: those of Paths, two files add cannot take, and
\* "e", where there is no file
AddPaths == Paths \cup {"c", "d", "e"}

File == [p \in (AddPaths \ {"e"}) \cup {"l"} |->
           CASE p = "a" -> FileA
             [] p = "b" -> FileB
             [] p = "c" -> FileC
             [] p = "d" -> FileD
             [] OTHER -> FileL]

\* sort.Strings over the paths
SortedPaths == <<"a", "b">>

\* activeNovel.Chapters once loadActiveNovelChapters has run, per path and
\* stored regex name
ChaptersOf == [p \in Paths \cup {"l"} |-> [f \in Formats |-> ParseNovel(File[p], f)]]

\* segmentSeparator.Split(chapter.Content, -1) of every chapter
SegmentsOf ==
  [p \in Paths \cup {"l"} |-> [f \in Formats |->
     [c \in 1..Len(ChaptersOf[p][f]) |->
        segmentSeparatorSplit(ChaptersOf[p][f][c].Content)]]]

\* ------------------------------------------------------------------------
\* State
\* ------------------------------------------------------------------------
VARIABLES
  diskCfg,        \* config.json: [Novels, ActiveNovelPath, AutoReadNext]
  diskProg,       \* progress.json: path -> [ch, seg]
  cfg,            \* main.go: cfg
  configDirty,
  progressData,
  progressDirty,
  activeNovel,    \* path of the active NovelInfo, "" for nil
  pc,             \* position of the main goroutine; "off": no process, "exited": ended
  cmd,            \* the command of the running (or last) process
  args,           \* handleRead's args: <<>> or <<n>>
  targetChapterIndex,
  startSegmentIndex,
  chapterChanged,
  segIdx,
  segmentsReadInSession,
  depth,          \* number of recursive handleRead calls on the stack
  doneChan,       \* "none", "open" (nothing delivered), "ok", "err"
  inflight,       \* `say` requests started and not yet resolved
  sig,            \* position of the signal goroutine
  sigSnap,        \* the progress data it has marshalled
  sigMark,        \* where main was when the signal came: <<pc, Len(spoken)>>
  exitKind,       \* how the last process ended
  diedAt,         \* where main was when it ended
  spoken,         \* the <<chapter, segment>> submitted by this process
  startPos,       \* the position resolved by the first handleRead call
  result,         \* how handleRead ended
  doc,            \* parser.go: the content of the file at filePath
  runs,           \* the results of the DetectFormat calls on doc so far
  regexName,      \* the name of the chapterRegex given to ParseNovel
  chapters,       \* what ParseNovel returned; <<>> also before the call
  body,           \* the chapter.Content given to segmentSeparator.Split
  segs            \* the texts the loop of handleRead submits for body

tool == <<diskCfg, diskProg, cfg, configDirty, progressData, progressDirty,
          activeNovel, pc, cmd, args, targetChapterIndex, startSegmentIndex,
          chapterChanged, segIdx, segmentsReadInSession, depth, doneChan,
          inflight, sig, sigSnap, sigMark, exitKind, diedAt, spoken,
          startPos, result>>

parse == <<doc, runs, regexName, chapters, body, segs>>

vars == <<tool, parse>>

store == <<diskCfg, diskProg>>
memory == <<cfg, configDirty, progressData, progressDirty, activeNovel>>
locals == <<args, targetChapterIndex, startSegmentIndex, chapterChanged,
            segIdx, segmentsReadInSession, depth, startPos>>
speech == <<doneChan, inflight, spoken>>
listener == <<sig, sigSnap, sigMark>>
ending == <<exitKind, diedAt>>

NoMark == <<"none", 0>>
NoPos == <<-1, -1>>

NoProgress == [p \in {} |-> [ch |-> 0, seg |-> 0]]
NoNovels == [p \in {} |-> "markdown"]

\* LoadConfig on an absent file
DefaultConfig == [Novels |-> NoNovels, ActiveNovelPath |-> "", AutoReadNext |-> FALSE]

Put(f, k, v) == [x \in DOMAIN f \cup {k} |-> IF x = k THEN v ELSE f[x]]
Delete(f, k) == [x \in DOMAIN f \ {k} |-> f[x]]

\* no process runs
InitProcess ==
  /\ cfg = DefaultConfig
  /\ configDirty = FALSE
  /\ progressData = NoProgress
  /\ progressDirty = FALSE
  /\ activeNovel = ""
  /\ pc = "off"
  /\ cmd = "none"
  /\ args = <<>>
  /\ targetChapterIndex = 0
  /\ startSegmentIndex = 0
  /\ chapterChanged = FALSE
  /\ segIdx = 0
  /\ segmentsReadInSession = 0
  /\ depth = 0
  /\ doneChan = "none"
  /\ inflight = 0
  /\ sig = "wait"
  /\ sigSnap = NoProgress
  /\ sigMark = NoMark
  /\ exitKind = "none"
  /\ diedAt = "none"
  /\ spoken = <<>>
  /\ startPos = NoPos
  /\ result = "none"

InitTool ==
  /\ diskCfg = DefaultConfig
  /\ diskProg = NoProgress
  /\ InitProcess

\* no file is under study
NoText ==
  /\ doc = <<>>
  /\ runs = <<>>
  /\ regexName = ""
  /\ chapters = <<>>
  /\ body = <<>>
  /\ segs = <<>>

Init == InitTool /\ NoText

\* ------------------------------------------------------------------------
\* Bounds of the inputs
\* ------------------------------------------------------------------------
ArgMax == 4      \* chapter arguments of read are drawn from 0..ArgMax
IdxMax == 3      \* index arguments of remove/switch are drawn from 0..IdxMax
Over == 1        \* indices written into progress.json from outside run from
                 \* -1 to Over past the last chapter (segment) of the entry

\* ------------------------------------------------------------------------
\* Persistence (config package, saveConfig / saveProgress of main.go)
\* ------------------------------------------------------------------------
\* main(), lines 44-76: cfg after LoadConfig and loadActiveNovelMetadata
StaleActive == /\ diskCfg.ActiveNovelPath # ""
               /\ diskCfg.ActiveNovelPath \notin DOMAIN diskCfg.Novels

LoadedCfg == IF StaleActive THEN [diskCfg EXCEPT !.ActiveNovelPath = ""] ELSE diskCfg

\* the process starts: both files are loaded, the listener waits
Boot(c) ==
  /\ pc = "off"
  /\ cmd' = c
  /\ targetChapterIndex' = 0
  /\ startSegmentIndex' = 0
  /\ chapterChanged' = FALSE
  /\ segIdx' = 0
  /\ segmentsReadInSession' = 0
  /\ depth' = 0
  /\ doneChan' = "none"
  /\ inflight' = 0
  /\ spoken' = <<>>
  /\ startPos' = NoPos
  /\ sig' = "wait"
  /\ sigSnap' = NoProgress
  /\ sigMark' = NoMark

\* The process is gone, and its goroutines with it; process termination is
\* the cancellation of the speech request it was waiting for.  What the
\* process held when it ended (memory, channel, positions) stays readable
\* at "exited", until the system takes it back.
Die(kind) ==
  /\ pc' = "exited"
  /\ exitKind' = kind
  /\ diedAt' = pc
  /\ inflight' = 0
  /\ sig' = "wait"
  /\ sigSnap' = NoProgress
  /\ UNCHANGED <<doneChan, sigMark, parse>>

\* log.Fatalf: os.Exit(1), deferred calls do not run
Fatalf == Die("fatal")

\* a command of a process just started: it goes on, or ends in log.Fatalf
Alive == exitKind' = "none" /\ diedAt' = "none" /\ result' = "none" /\ UNCHANGED parse
Abort == /\ pc' = "exited" /\ exitKind' = "fatal" /\ diedAt' = cmd' /\ result' = "none"
         /\ UNCHANGED parse

\* ------------------------------------------------------------------------
\* Library commands
\* ------------------------------------------------------------------------
getNovelsSorted(c) == SelectSeq(SortedPaths, LAMBDA q : q \in DOMAIN c.Novels)


\* handleAdd without lines 237-241: no Progress record is made for the new
\* entry
handleAdd_NoProgress(p) ==
  /\ Boot("add")
  /\ args' = <<>>
  /\ UNCHANGED store
  /\ progressData' = diskProg
  /\ progressDirty' = FALSE
  /\ IF p \in DOMAIN LoadedCfg.Novels
     THEN /\ cfg' = LoadedCfg
          /\ configDirty' = StaleActive
          /\ activeNovel' = LoadedCfg.ActiveNovelPath
          /\ pc' = "ret" /\ Alive
     ELSE IF p \notin DOMAIN File
     THEN /\ cfg' = LoadedCfg
          /\ configDirty' = StaleActive
          /\ activeNovel' = LoadedCfg.ActiveNovelPath
          /\ Abort
     ELSE \E r \in DetectFormat(File[p]) :
          IF r = "" \/ ParseNovel(File[p], r) = <<>>
          THEN /\ cfg' = LoadedCfg
               /\ configDirty' = StaleActive
               /\ activeNovel' = LoadedCfg.ActiveNovelPath
               /\ Abort
          ELSE /\ cfg' = [LoadedCfg EXCEPT !.Novels = Put(@, p, r),
                                           !.ActiveNovelPath = p]
               /\ activeNovel' = p
               /\ configDirty' = TRUE
               /\ pc' = "ret" /\ Alive

\* handleAdd with the entry put into the library before the file is parsed
handleAdd_EntryFirst(p) ==
  /\ Boot("add")
  /\ args' = <<>>
  /\ UNCHANGED store
  /\ IF p \in DOMAIN LoadedCfg.Novels
     THEN /\ cfg' = LoadedCfg
          /\ configDirty' = StaleActive
          /\ progressData' = diskProg
          /\ progressDirty' = FALSE
          /\ activeNovel' = LoadedCfg.ActiveNovelPath
          /\ pc' = "ret" /\ Alive
     ELSE IF p \notin DOMAIN File
     THEN /\ cfg' = LoadedCfg
          /\ configDirty' = StaleActive
          /\ progressData' = diskProg
          /\ progressDirty' = FALSE
          /\ activeNovel' = LoadedCfg.ActiveNovelPath
          /\ Abort
     ELSE \E r \in DetectFormat(File[p]) :
          /\ cfg' = [LoadedCfg EXCEPT !.Novels = Put(@, p, IF r = "" THEN "markdown" ELSE r),
                                      !.ActiveNovelPath = p]
          /\ activeNovel' = p
          /\ configDirty' = TRUE
          /\ progressData' = IF p \in DOMAIN diskProg THEN diskProg
                             ELSE Put(diskProg, p, [ch |-> 0, seg |-> 0])
          /\ progressDirty' = (p \notin DOMAIN diskProg)
          /\ IF r = "" \/ ParseNovel(File[p], r) = <<>>
             THEN Abort
             ELSE pc' = "ret" /\ Alive

\* lines 180-244
handleAdd(p) ==
  /\ Boot("add")
  /\ args' = <<>>
  /\ UNCHANGED store
  /\ IF p \in DOMAIN LoadedCfg.Novels
     THEN \* already in the library: reported, the command returns
          /\ cfg' = LoadedCfg
          /\ configDirty' = StaleActive
          /\ progressData' = diskProg
          /\ progressDirty' = FALSE
          /\ activeNovel' = LoadedCfg.ActiveNovelPath
          /\ pc' = "ret" /\ Alive
     ELSE IF p \notin DOMAIN File
     THEN \* os.Stat: no such file (lines 193-195)
          /\ cfg' = LoadedCfg
          /\ configDirty' = StaleActive
          /\ progressData' = diskProg
          /\ progressDirty' = FALSE
          /\ activeNovel' = LoadedCfg.ActiveNovelPath
          /\ Abort
     ELSE \E r \in DetectFormat(File[p]) :
          IF r = "" \/ ParseNovel(File[p], r) = <<>>
          THEN /\ cfg' = LoadedCfg
               /\ configDirty' = StaleActive
               /\ progressData' = diskProg
               /\ progressDirty' = FALSE
               /\ activeNovel' = LoadedCfg.ActiveNovelPath
               /\ Abort
          ELSE /\ cfg' = [LoadedCfg EXCEPT !.Novels = Put(@, p, r),
                                           !.ActiveNovelPath = p]
               /\ activeNovel' = p
               /\ configDirty' = TRUE
               /\ progressData' = IF p \in DOMAIN diskProg THEN diskProg
                                  ELSE Put(diskProg, p, [ch |-> 0, seg |-> 0])
               /\ progressDirty' = (p \notin DOMAIN diskProg)
               /\ pc' = "ret" /\ Alive



\* handleRemove without lines 292-297: the Progress record of the entry
\* removed is kept
handleRemove_KeepProgress(index) ==
  /\ Boot("remove")
  /\ args' = <<>>
  /\ UNCHANGED store
  /\ LET sortedNovels == getNovelsSorted(LoadedCfg) IN
     IF index < 1 \/ index > Len(sortedNovels)
     THEN /\ cfg' = LoadedCfg
          /\ configDirty' = StaleActive
          /\ progressData' = diskProg
          /\ progressDirty' = FALSE
          /\ activeNovel' = LoadedCfg.ActiveNovelPath
          /\ Abort
     ELSE LET filePath == sortedNovels[index] IN
          /\ cfg' = [LoadedCfg EXCEPT
                       !.Novels = Delete(@, filePath),
                       !.ActiveNovelPath = IF @ = filePath THEN "" ELSE @]
          /\ activeNovel' = IF LoadedCfg.ActiveNovelPath = filePath THEN ""
                            ELSE LoadedCfg.ActiveNovelPath
          /\ configDirty' = TRUE
          /\ progressData' = diskProg
          /\ progressDirty' = FALSE
          /\ pc' = "ret" /\ Alive

\* handleRemove without lines 299-304: the pointer is left on the entry
\* removed
handleRemove_KeepPointer(index) ==
  /\ Boot("remove")
  /\ args' = <<>>
  /\ UNCHANGED store
  /\ LET sortedNovels == getNovelsSorted(LoadedCfg) IN
     IF index < 1 \/ index > Len(sortedNovels)
     THEN /\ cfg' = LoadedCfg
          /\ configDirty' = StaleActive
          /\ progressData' = diskProg
          /\ progressDirty' = FALSE
          /\ activeNovel' = LoadedCfg.ActiveNovelPath
          /\ Abort
     ELSE LET filePath == sortedNovels[index] IN
          /\ cfg' = [LoadedCfg EXCEPT !.Novels = Delete(@, filePath)]
          /\ activeNovel' = LoadedCfg.ActiveNovelPath
          /\ configDirty' = TRUE
          /\ progressData' = Delete(diskProg, filePath)
          /\ progressDirty' = (filePath \in DOMAIN diskProg)
          /\ pc' = "ret" /\ Alive

\* handleRemove with a return in place of log.Fatalf at line 281: the
\* command ends like any other, nothing is removed
handleRemove_Return(index) ==
  /\ Boot("remove")
  /\ args' = <<>>
  /\ UNCHANGED store
  /\ LET sortedNovels == getNovelsSorted(LoadedCfg) IN
     IF index < 1 \/ index > Len(sortedNovels)
     THEN /\ cfg' = LoadedCfg
          /\ configDirty' = StaleActive
          /\ progressData' = diskProg
          /\ progressDirty' = FALSE
          /\ activeNovel' = LoadedCfg.ActiveNovelPath
          /\ pc' = "ret" /\ Alive
     ELSE LET filePath == sortedNovels[index] IN
          /\ cfg' = [LoadedCfg EXCEPT
                       !.Novels = Delete(@, filePath),
                       !.ActiveNovelPath = IF @ = filePath THEN "" ELSE @]
          /\ activeNovel' = IF LoadedCfg.ActiveNovelPath = filePath THEN ""
                            ELSE LoadedCfg.ActiveNovelPath
          /\ configDirty' = TRUE
          /\ progressData' = Delete(diskProg, filePath)
          /\ progressDirty' = (filePath \in DOMAIN diskProg)
          /\ pc' = "ret" /\ Alive

handleRemove(index) ==
  /\ Boot("remove")
  /\ args' = <<>>
  /\ UNCHANGED store
  /\ LET sortedNovels == getNovelsSorted(LoadedCfg) IN
     IF index < 1 \/ index > Len(sortedNovels)
     THEN /\ cfg' = LoadedCfg
          /\ configDirty' = StaleActive
          /\ progressData' = diskProg
          /\ progressDirty' = FALSE
          /\ activeNovel' = LoadedCfg.ActiveNovelPath
          /\ Abort
     ELSE LET filePath == sortedNovels[index] IN
          /\ cfg' = [LoadedCfg EXCEPT
                       !.Novels = Delete(@, filePath),
                       !.ActiveNovelPath = IF @ = filePath THEN "" ELSE @]
          /\ activeNovel' = IF LoadedCfg.ActiveNovelPath = filePath THEN ""
                            ELSE LoadedCfg.ActiveNovelPath
          /\ configDirty' = TRUE
          /\ progressData' = Delete(diskProg, filePath)
          /\ progressDirty' = (filePath \in DOMAIN diskProg)
          /\ pc' = "ret" /\ Alive

\* lines 307-323: up to the test of the active path; args keeps the index
handleSwitch(index) ==
  /\ Boot("switch")
  /\ args' = <<index>>
  /\ cfg' = LoadedCfg
  /\ configDirty' = StaleActive
  /\ progressData' = diskProg
  /\ progressDirty' = FALSE
  /\ activeNovel' = LoadedCfg.ActiveNovelPath
  /\ UNCHANGED store
  /\ LET sortedNovels == getNovelsSorted(LoadedCfg) IN
     IF index < 1 \/ index > Len(sortedNovels)
     THEN Abort
     ELSE LET filePath == sortedNovels[index] IN
          IF LoadedCfg.ActiveNovelPath # filePath
          THEN pc' = "sw_flush" /\ Alive
          ELSE pc' = "ret" /\ Alive

\* lines 324-334: what is dirty is saved before the pointer is changed
SwFlush ==
  /\ pc = "sw_flush"
  /\ IF progressDirty
     THEN diskProg' = progressData /\ progressDirty' = FALSE
     ELSE UNCHANGED <<diskProg, progressDirty>>
  /\ IF configDirty
     THEN diskCfg' = cfg /\ configDirty' = FALSE
     ELSE UNCHANGED <<diskCfg, configDirty>>
  /\ pc' = "sw_set"
  /\ UNCHANGED <<cfg, progressData, activeNovel, cmd, locals, speech,
                 listener, ending, parse, result>>


\* SwSet starting the entry switched to from its beginning
SwSet_ResetProgress ==
  /\ pc = "sw_set"
  /\ LET filePath == getNovelsSorted(cfg)[args[1]] IN
     /\ cfg' = [cfg EXCEPT !.ActiveNovelPath = filePath]
     /\ activeNovel' = filePath
     /\ progressData' = Put(progressData, filePath, [ch |-> 0, seg |-> 0])
  /\ configDirty' = TRUE
  /\ progressDirty' = TRUE
  /\ pc' = "sw_save"
  /\ UNCHANGED <<store, cmd, locals, speech, listener, ending, parse, result>>

\* lines 336-339: the pointer is changed in memory
SwSet ==
  /\ pc = "sw_set"
  /\ LET filePath == getNovelsSorted(cfg)[args[1]] IN
     /\ cfg' = [cfg EXCEPT !.ActiveNovelPath = filePath]
     /\ activeNovel' = filePath
  /\ configDirty' = TRUE
  /\ pc' = "sw_save"
  /\ UNCHANGED <<store, progressData, progressDirty, cmd, locals, speech,
                 listener, ending, parse, result>>

\* SwSave without the saveConfig of line 340: the write is left to the exit
SwSave_Deferred ==
  /\ pc = "sw_save"
  /\ pc' = "ret"
  /\ UNCHANGED <<store, memory, cmd, locals, speech, listener, ending,
                 parse, result>>

\* line 340: saveConfig at once
SwSave ==
  /\ pc = "sw_save"
  /\ diskCfg' = cfg
  /\ configDirty' = FALSE
  /\ pc' = "ret"
  /\ UNCHANGED <<diskProg, cfg, progressData, progressDirty, activeNovel,
                 cmd, locals, speech, listener, ending, parse, result>>

Settings == {"", "auto_next", "bogus"}

\* handleConfig: "" stands for no argument
handleConfig(setting) ==
  /\ Boot("config")
  /\ args' = <<>>
  /\ UNCHANGED store
  /\ cfg' = IF setting = "auto_next" THEN [LoadedCfg EXCEPT !.AutoReadNext = ~@]
            ELSE LoadedCfg
  /\ configDirty' = (setting = "auto_next" \/ StaleActive)
  /\ progressData' = diskProg
  /\ progressDirty' = FALSE
  /\ activeNovel' = LoadedCfg.ActiveNovelPath
  /\ IF setting \in {"", "auto_next"}
     THEN pc' = "ret" /\ Alive
     ELSE Abort

\* ------------------------------------------------------------------------
\* read / next / prev
\* ------------------------------------------------------------------------
\* the memory of a process that has just loaded both files
LoadMemory ==
  /\ cfg' = LoadedCfg
  /\ configDirty' = StaleActive
  /\ progressData' = diskProg
  /\ progressDirty' = FALSE
  /\ activeNovel' = LoadedCfg.ActiveNovelPath


\* handleListNovels, lines 246-268: the library is printed with the
\* Progress of each entry; nothing is changed
handleListNovels ==
  /\ Boot("list")
  /\ LoadMemory
  /\ args' = <<>>
  /\ pc' = "ret" /\ Alive
  /\ UNCHANGED store

\* handleChapters, lines 347-361: the titles of the active entry are printed
handleChapters ==
  /\ Boot("chapters")
  /\ LoadMemory
  /\ args' = <<>>
  /\ pc' = "ret" /\ Alive
  /\ UNCHANGED store

\* handleWhere, lines 550-570: the Progress of the active entry is printed
handleWhere ==
  /\ Boot("where")
  /\ LoadMemory
  /\ args' = <<>>
  /\ pc' = "ret" /\ Alive
  /\ UNCHANGED store

ReadArgs == {<<>>} \cup {<<n>> : n \in 0..ArgMax}

\* main dispatches "read": handleRead(args) is entered
CmdRead(a) ==
  /\ Boot("read")
  /\ LoadMemory
  /\ args' = a
  /\ pc' = "rd_entry" /\ Alive
  /\ UNCHANGED store

\* activeNovel.Chapters after loadActiveNovelChapters
Chapters == ChaptersOf[activeNovel][cfg.Novels[activeNovel]]

\* handleNext with > for >= in the test of line 518
handleNext_OffByOne ==
  /\ Boot("next")
  /\ LoadMemory
  /\ Alive
  /\ UNCHANGED store
  /\ LET an == LoadedCfg.ActiveNovelPath IN
     IF an = "" \/ an \notin DOMAIN diskProg
     THEN args' = <<>> /\ pc' = "ret"
     ELSE LET nextChapterIndex == diskProg[an].ch + 1 IN
          IF nextChapterIndex > Len(ChaptersOf[an][LoadedCfg.Novels[an]])
          THEN args' = <<>> /\ pc' = "ret"
          ELSE args' = <<nextChapterIndex + 1>> /\ pc' = "rd_entry"

\* handleNext, lines 502-524: up to the call of handleRead
handleNext ==
  /\ Boot("next")
  /\ LoadMemory
  /\ Alive
  /\ UNCHANGED store
  /\ LET an == LoadedCfg.ActiveNovelPath IN
     IF an = "" \/ an \notin DOMAIN diskProg
     THEN args' = <<>> /\ pc' = "ret"
     ELSE LET nextChapterIndex == diskProg[an].ch + 1 IN
          IF nextChapterIndex >= Len(ChaptersOf[an][LoadedCfg.Novels[an]])
          THEN args' = <<>> /\ pc' = "ret"
          ELSE args' = <<nextChapterIndex + 1>> /\ pc' = "rd_entry"

\* handlePrev, lines 526-548
handlePrev ==
  /\ Boot("prev")
  /\ LoadMemory
  /\ Alive
  /\ UNCHANGED store
  /\ LET an == LoadedCfg.ActiveNovelPath IN
     IF an = "" \/ an \notin DOMAIN diskProg
     THEN args' = <<>> /\ pc' = "ret"
     ELSE LET prevChapterIndex == diskProg[an].ch - 1 IN
          IF prevChapterIndex < 0
          THEN args' = <<>> /\ pc' = "ret"
          ELSE args' = <<prevChapterIndex + 1>> /\ pc' = "rd_entry"

\* currentProgress and the segments of the chapter being read
Cur == progressData[activeNovel]
Segments == SegmentsOf[activeNovel][cfg.Novels[activeNovel]][targetChapterIndex + 1]

SetCur(pd, c, g) == [pd EXCEPT ![activeNovel] = [ch |-> c, seg |-> g]]

\* RdEntry without the reset of startSegmentIndex at line 395
RdEntry_KeepSegment ==
  /\ pc = "rd_entry"
  /\ UNCHANGED <<store, cfg, configDirty, activeNovel, cmd, args, segIdx,
                 segmentsReadInSession, depth, spoken, startPos>>
  /\ IF activeNovel = "" \/ Len(Chapters) = 0
     THEN /\ pc' = "ret"
          /\ result' = "no_novel"
          /\ UNCHANGED <<progressData, progressDirty, targetChapterIndex,
                         startSegmentIndex, chapterChanged, ending, parse, listener,
                         doneChan, inflight>>
     ELSE LET ok == activeNovel \in DOMAIN progressData
              pd == IF ok THEN progressData
                    ELSE Put(progressData, activeNovel, [ch |-> 0, seg |-> 0])
              cur == pd[activeNovel]
          IN
          /\ progressData' = pd
          /\ progressDirty' = (progressDirty \/ ~ok)
          /\ UNCHANGED result
          /\ IF args # <<>> /\ (args[1] < 1 \/ args[1] > Len(Chapters))
             THEN /\ Fatalf
                  /\ UNCHANGED <<targetChapterIndex, startSegmentIndex, chapterChanged>>
             ELSE /\ UNCHANGED <<ending, parse, listener, doneChan, inflight>>
                  /\ IF args # <<>> /\ args[1] - 1 # cur.ch
                     THEN /\ targetChapterIndex' = args[1] - 1
                          /\ startSegmentIndex' = cur.seg
                          /\ chapterChanged' = TRUE
                          /\ pc' = "rd_chg"
                     ELSE /\ targetChapterIndex' = cur.ch
                          /\ startSegmentIndex' = cur.seg
                          /\ chapterChanged' = FALSE
                          /\ pc' = "rd_valid"

\* lines 363-398
RdEntry ==
  /\ pc = "rd_entry"
  /\ UNCHANGED <<store, cfg, configDirty, activeNovel, cmd, args, segIdx,
                 segmentsReadInSession, depth, spoken, startPos>>
  /\ IF activeNovel = "" \/ Len(Chapters) = 0
     THEN /\ pc' = "ret"
          /\ result' = "no_novel"
          /\ UNCHANGED <<progressData, progressDirty, targetChapterIndex,
                         startSegmentIndex, chapterChanged, ending, parse, listener,
                         doneChan, inflight>>
     ELSE LET ok == activeNovel \in DOMAIN progressData
              pd == IF ok THEN progressData
                    ELSE Put(progressData, activeNovel, [ch |-> 0, seg |-> 0])
              cur == pd[activeNovel]
          IN
          /\ progressData' = pd
          /\ progressDirty' = (progressDirty \/ ~ok)
          /\ UNCHANGED result
          /\ IF args # <<>> /\ (args[1] < 1 \/ args[1] > Len(Chapters))
             THEN /\ Fatalf
                  /\ UNCHANGED <<targetChapterIndex, startSegmentIndex, chapterChanged>>
             ELSE /\ UNCHANGED <<ending, parse, listener, doneChan, inflight>>
                  /\ IF args # <<>> /\ args[1] - 1 # cur.ch
                     THEN /\ targetChapterIndex' = args[1] - 1
                          /\ startSegmentIndex' = 0
                          /\ chapterChanged' = TRUE
                          /\ pc' = "rd_chg"
                     ELSE /\ targetChapterIndex' = cur.ch
                          /\ startSegmentIndex' = cur.seg
                          /\ chapterChanged' = FALSE
                          /\ pc' = "rd_valid"

\* line 403
RdChapterIndex ==
  /\ pc = "rd_chg"
  /\ progressData' = [progressData EXCEPT ![activeNovel].ch = targetChapterIndex]
  /\ pc' = "rd_chg2"
  /\ UNCHANGED <<store, cfg, configDirty, progressDirty, activeNovel, cmd,
                 locals, speech, listener, ending, parse, result>>

\* lines 404-406; saveProgress writes the map and clears the flag
RdChapterSave ==
  /\ pc = "rd_chg2"
  /\ progressData' = [progressData EXCEPT ![activeNovel].seg = startSegmentIndex]
  /\ diskProg' = progressData'
  /\ progressDirty' = FALSE
  /\ pc' = "rd_valid"
  /\ UNCHANGED <<diskCfg, cfg, configDirty, activeNovel, cmd, locals, speech,
                 listener, ending, parse, result>>

\* RdValidate without the upper bound of the segment check (line 433)
RdValidate_NoUpperSegCheck ==
  /\ pc = "rd_valid"
  /\ LET badCh == targetChapterIndex < 0 \/ targetChapterIndex >= Len(Chapters)
         tci == IF badCh THEN 0 ELSE targetChapterIndex
         seg1 == IF badCh THEN 0 ELSE startSegmentIndex
         fix1 == badCh /\ (Cur.ch # 0 \/ Cur.seg # 0)
         pd1 == IF fix1 THEN SetCur(progressData, 0, 0) ELSE progressData
         badSeg == seg1 < 0
         seg2 == IF badSeg THEN 0 ELSE seg1
         fix2 == badSeg /\ pd1[activeNovel].seg # 0
         pd2 == IF fix2 THEN [pd1 EXCEPT ![activeNovel].seg = 0] ELSE pd1
     IN
     /\ targetChapterIndex' = tci
     /\ startSegmentIndex' = seg2
     /\ progressData' = pd2
     /\ IF fix1 \/ fix2
        THEN diskProg' = pd2 /\ progressDirty' = FALSE
        ELSE UNCHANGED <<diskProg, progressDirty>>
     /\ segIdx' = seg2
     /\ segmentsReadInSession' = 0
     /\ startPos' = IF depth = 0 THEN <<tci, seg2>> ELSE startPos
  /\ pc' = "rd_loop"
  /\ UNCHANGED <<diskCfg, cfg, configDirty, activeNovel, cmd, args,
                 chapterChanged, depth, speech, listener, ending, parse, result>>

\* lines 409-441: both validations and the segment list
RdValidate ==
  /\ pc = "rd_valid"
  /\ LET badCh == targetChapterIndex < 0 \/ targetChapterIndex >= Len(Chapters)
         tci == IF badCh THEN 0 ELSE targetChapterIndex
         seg1 == IF badCh THEN 0 ELSE startSegmentIndex
         fix1 == badCh /\ (Cur.ch # 0 \/ Cur.seg # 0)
         pd1 == IF fix1 THEN SetCur(progressData, 0, 0) ELSE progressData
         segments == SegmentsOf[activeNovel][cfg.Novels[activeNovel]][tci + 1]
         badSeg == seg1 < 0 \/ seg1 >= Len(segments)
         seg2 == IF badSeg THEN 0 ELSE seg1
         fix2 == badSeg /\ pd1[activeNovel].seg # 0
         pd2 == IF fix2 THEN [pd1 EXCEPT ![activeNovel].seg = 0] ELSE pd1
     IN
     /\ targetChapterIndex' = tci
     /\ startSegmentIndex' = seg2
     /\ progressData' = pd2
     /\ IF fix1 \/ fix2
        THEN diskProg' = pd2 /\ progressDirty' = FALSE
        ELSE UNCHANGED <<diskProg, progressDirty>>
     /\ segIdx' = seg2
     /\ segmentsReadInSession' = 0
     /\ startPos' = IF depth = 0 THEN <<tci, seg2>> ELSE startPos
  /\ pc' = "rd_loop"
  /\ UNCHANGED <<diskCfg, cfg, configDirty, activeNovel, cmd, args,
                 chapterChanged, depth, speech, listener, ending, parse, result>>

\* lines 443-447: the loop condition fails
RdLoopEnd ==
  /\ pc = "rd_loop"
  /\ segIdx >= Len(Segments)
  /\ pc' = "rd_after"
  /\ UNCHANGED <<store, memory, cmd, locals, speech, listener, ending, parse, result>>

\* RdSkipEmpty without the test of lines 445-447: the empty text is given
\* to SpeakAsync, which refuses it
RdSkipEmpty_Submit ==
  /\ pc = "rd_loop"
  /\ segIdx < Len(Segments)
  /\ TrimSpace(Segments[segIdx + 1]) = <<>>
  /\ pc' = "ret"
  /\ result' = "submit_failed"
  /\ UNCHANGED <<store, memory, cmd, locals, speech, listener, ending, parse>>


\* RdSkipEmpty passing over the piece after the empty one as well
RdSkipEmpty_SkipNext ==
  /\ pc = "rd_loop"
  /\ segIdx < Len(Segments)
  /\ TrimSpace(Segments[segIdx + 1]) = <<>>
  /\ segIdx' = segIdx + 2
  /\ UNCHANGED <<store, memory, cmd, pc, args, targetChapterIndex,
                 startSegmentIndex, chapterChanged, segmentsReadInSession,
                 depth, startPos, speech, listener, ending, parse, result>>

\* lines 444-447: a piece that is empty after trimming is passed over
RdSkipEmpty ==
  /\ pc = "rd_loop"
  /\ segIdx < Len(Segments)
  /\ TrimSpace(Segments[segIdx + 1]) = <<>>
  /\ segIdx' = segIdx + 1
  /\ UNCHANGED <<store, memory, cmd, pc, args, targetChapterIndex,
                 startSegmentIndex, chapterChanged, segmentsReadInSession,
                 depth, startPos, speech, listener, ending, parse, result>>

\* tts.SpeakAsync, lines 13-41: an error (not darwin, empty text, `say`
\* does not start) or a channel on which the result will arrive
SpeakAsync(text, started) == text # <<>> /\ started

\* RdSpeak with the update of lines 457-462 made before the submission
RdSpeak_UpdateFirst(started) ==
  /\ pc = "rd_loop"
  /\ segIdx < Len(Segments)
  /\ TrimSpace(Segments[segIdx + 1]) # <<>>
  /\ progressData' = SetCur(progressData, targetChapterIndex, segIdx)
  /\ progressDirty' = (progressDirty \/ progressData' # progressData)
  /\ IF SpeakAsync(TrimSpace(Segments[segIdx + 1]), started)
     THEN /\ doneChan' = "open"
          /\ inflight' = inflight + 1
          /\ spoken' = Append(spoken, <<targetChapterIndex, segIdx>>)
          /\ pc' = "rd_upd"
          /\ UNCHANGED result
     ELSE /\ pc' = "ret"
          /\ result' = "submit_failed"
          /\ UNCHANGED speech
  /\ UNCHANGED <<store, cfg, configDirty, activeNovel, cmd, locals, listener, ending, parse>>

\* lines 451-455
RdSpeak(started) ==
  /\ pc = "rd_loop"
  /\ segIdx < Len(Segments)
  /\ TrimSpace(Segments[segIdx + 1]) # <<>>
  /\ IF SpeakAsync(TrimSpace(Segments[segIdx + 1]), started)
     THEN /\ doneChan' = "open"
          /\ inflight' = inflight + 1
          /\ spoken' = Append(spoken, <<targetChapterIndex, segIdx>>)
          /\ pc' = "rd_upd"
          /\ UNCHANGED result
     ELSE /\ pc' = "ret"
          /\ result' = "submit_failed"
          /\ UNCHANGED speech
  /\ UNCHANGED <<store, memory, cmd, locals, listener, ending, parse>>

\* RdUpdate without the update: Progress is left as it was
RdUpdate_Skip ==
  /\ pc = "rd_upd"
  /\ pc' = "rd_wait"
  /\ UNCHANGED <<store, memory, cmd, locals, speech, listener, ending, parse, result>>

\* lines 457-462
RdUpdate ==
  /\ pc = "rd_upd"
  /\ IF Cur.ch # targetChapterIndex \/ Cur.seg # segIdx
     THEN /\ progressData' = SetCur(progressData, targetChapterIndex, segIdx)
          /\ progressDirty' = TRUE
     ELSE UNCHANGED <<progressData, progressDirty>>
  /\ pc' = "rd_wait"
  /\ UNCHANGED <<store, cfg, configDirty, activeNovel, cmd, locals, speech,
                 listener, ending, parse, result>>

\* RdReceive with the save of lines 475-478 after every segment
RdReceive_SaveEach ==
  /\ pc = "rd_wait"
  /\ doneChan \in {"ok", "err"}
  /\ doneChan' = "none"
  /\ IF doneChan = "err"
     THEN /\ pc' = "ret"
          /\ result' = "speech_failed"
          /\ UNCHANGED <<segmentsReadInSession, segIdx, diskProg, progressDirty>>
     ELSE /\ segmentsReadInSession' = segmentsReadInSession + 1
          /\ IF progressDirty
             THEN diskProg' = progressData /\ progressDirty' = FALSE
             ELSE UNCHANGED <<diskProg, progressDirty>>
          /\ IF ~cfg.AutoReadNext
             THEN pc' = "ret" /\ result' = "stopped" /\ UNCHANGED segIdx
             ELSE IF segIdx = Len(Segments) - 1
                  THEN pc' = "rd_after" /\ UNCHANGED <<segIdx, result>>
                  ELSE pc' = "rd_loop" /\ segIdx' = segIdx + 1 /\ UNCHANGED result
  /\ UNCHANGED <<diskCfg, cfg, configDirty, progressData, activeNovel, cmd,
                 args, targetChapterIndex, startSegmentIndex, chapterChanged,
                 depth, startPos, inflight, spoken, listener, ending, parse>>

\* RdReceive without the receive of line 465: the loop goes on at once
RdReceive_NoWait ==
  /\ pc = "rd_wait"
  /\ doneChan \in {"open", "ok", "err"}
  /\ doneChan' = "none"
  /\ IF doneChan = "err"
     THEN /\ pc' = "ret"
          /\ result' = "speech_failed"
          /\ UNCHANGED <<segmentsReadInSession, segIdx, diskProg, progressDirty>>
     ELSE /\ segmentsReadInSession' = segmentsReadInSession + 1
          /\ IF segmentsReadInSession' % SaveEvery = 0 /\ progressDirty
             THEN diskProg' = progressData /\ progressDirty' = FALSE
             ELSE UNCHANGED <<diskProg, progressDirty>>
          /\ IF ~cfg.AutoReadNext
             THEN pc' = "ret" /\ result' = "stopped" /\ UNCHANGED segIdx
             ELSE IF segIdx = Len(Segments) - 1
                  THEN pc' = "rd_after" /\ UNCHANGED <<segIdx, result>>
                  ELSE pc' = "rd_loop" /\ segIdx' = segIdx + 1 /\ UNCHANGED result
  /\ UNCHANGED <<diskCfg, cfg, configDirty, progressData, activeNovel, cmd,
                 args, targetChapterIndex, startSegmentIndex, chapterChanged,
                 depth, startPos, inflight, spoken, listener, ending, parse>>

\* RdReceive without the test of cfg.AutoReadNext (lines 480-483)
RdReceive_IgnoreAutoNext ==
  /\ pc = "rd_wait"
  /\ doneChan \in {"ok", "err"}
  /\ doneChan' = "none"
  /\ IF doneChan = "err"
     THEN /\ pc' = "ret"
          /\ result' = "speech_failed"
          /\ UNCHANGED <<segmentsReadInSession, segIdx, diskProg, progressDirty>>
     ELSE /\ segmentsReadInSession' = segmentsReadInSession + 1
          /\ IF segmentsReadInSession' % SaveEvery = 0 /\ progressDirty
             THEN diskProg' = progressData /\ progressDirty' = FALSE
             ELSE UNCHANGED <<diskProg, progressDirty>>
          /\ IF segIdx = Len(Segments) - 1
             THEN pc' = "rd_after" /\ UNCHANGED <<segIdx, result>>
             ELSE pc' = "rd_loop" /\ segIdx' = segIdx + 1 /\ UNCHANGED result
  /\ UNCHANGED <<diskCfg, cfg, configDirty, progressData, activeNovel, cmd,
                 args, targetChapterIndex, startSegmentIndex, chapterChanged,
                 depth, startPos, inflight, spoken, listener, ending, parse>>


\* RdReceive moving Progress to the next piece when the segment has
\* completed and autoAdvance is off
RdReceive_Advance ==
  /\ pc = "rd_wait"
  /\ doneChan \in {"ok", "err"}
  /\ doneChan' = "none"
  /\ IF doneChan = "err"
     THEN /\ pc' = "ret"
          /\ result' = "speech_failed"
          /\ UNCHANGED <<segmentsReadInSession, segIdx, diskProg, progressDirty,
                         progressData>>
     ELSE /\ segmentsReadInSession' = segmentsReadInSession + 1
          /\ UNCHANGED diskProg
          /\ IF ~cfg.AutoReadNext
             THEN /\ pc' = "ret" /\ result' = "stopped" /\ UNCHANGED segIdx
                  /\ progressData' = SetCur(progressData, targetChapterIndex, segIdx + 1)
                  /\ progressDirty' = TRUE
             ELSE /\ UNCHANGED <<progressData, progressDirty>>
                  /\ IF segIdx = Len(Segments) - 1
                     THEN pc' = "rd_after" /\ UNCHANGED <<segIdx, result>>
                     ELSE pc' = "rd_loop" /\ segIdx' = segIdx + 1 /\ UNCHANGED result
  /\ UNCHANGED <<diskCfg, cfg, configDirty, activeNovel, cmd,
                 args, targetChapterIndex, startSegmentIndex, chapterChanged,
                 depth, startPos, inflight, spoken, listener, ending, parse>>

\* lines 465-486: the result is received from the channel
RdReceive ==
  /\ pc = "rd_wait"
  /\ doneChan \in {"ok", "err"}
  /\ doneChan' = "none"
  /\ IF doneChan = "err"
     THEN /\ pc' = "ret"
          /\ result' = "speech_failed"
          /\ UNCHANGED <<segmentsReadInSession, segIdx, diskProg, progressDirty>>
     ELSE /\ segmentsReadInSession' = segmentsReadInSession + 1
          /\ IF segmentsReadInSession' % SaveEvery = 0 /\ progressDirty
             THEN diskProg' = progressData /\ progressDirty' = FALSE
             ELSE UNCHANGED <<diskProg, progressDirty>>
          /\ IF ~cfg.AutoReadNext
             THEN pc' = "ret" /\ result' = "stopped" /\ UNCHANGED segIdx
             ELSE IF segIdx = Len(Segments) - 1
                  THEN pc' = "rd_after" /\ UNCHANGED <<segIdx, result>>
                  ELSE pc' = "rd_loop" /\ segIdx' = segIdx + 1 /\ UNCHANGED result
  /\ UNCHANGED <<diskCfg, cfg, configDirty, progressData, activeNovel, cmd,
                 args, targetChapterIndex, startSegmentIndex, chapterChanged,
                 depth, startPos, inflight, spoken, listener, ending, parse>>

\* RdAutoNext calling handleRead for the chapter just read (line 494
\* without the + 1)
RdAutoNext_SameChapter ==
  /\ pc = "rd_after"
  /\ IF cfg.AutoReadNext /\ targetChapterIndex + 1 < Len(Chapters)
     THEN /\ args' = <<targetChapterIndex + 1>>
          /\ depth' = depth + 1
          /\ pc' = "rd_entry"
          /\ UNCHANGED result
     ELSE /\ pc' = "ret"
          /\ result' = IF cfg.AutoReadNext THEN "novel_complete"
                        ELSE "chapter_complete"
          /\ UNCHANGED <<args, depth>>
  /\ UNCHANGED <<store, memory, cmd, targetChapterIndex, startSegmentIndex,
                 chapterChanged, segIdx, segmentsReadInSession, startPos,
                 speech, listener, ending, parse>>

\* RdAutoNext with the bound of line 492 off by one
RdAutoNext_OffByOne ==
  /\ pc = "rd_after"
  /\ IF cfg.AutoReadNext /\ targetChapterIndex + 1 < Len(Chapters) - 1
     THEN /\ args' = <<targetChapterIndex + 2>>
          /\ depth' = depth + 1
          /\ pc' = "rd_entry"
          /\ UNCHANGED result
     ELSE /\ pc' = "ret"
          /\ result' = IF cfg.AutoReadNext THEN "novel_complete"
                        ELSE "chapter_complete"
          /\ UNCHANGED <<args, depth>>
  /\ UNCHANGED <<store, memory, cmd, targetChapterIndex, startSegmentIndex,
                 chapterChanged, segIdx, segmentsReadInSession, startPos,
                 speech, listener, ending, parse>>

\* lines 489-499: handleRead calls itself for the next chapter
RdAutoNext ==
  /\ pc = "rd_after"
  /\ IF cfg.AutoReadNext /\ targetChapterIndex + 1 < Len(Chapters)
     THEN /\ args' = <<targetChapterIndex + 2>>
          /\ depth' = depth + 1
          /\ pc' = "rd_entry"
          /\ UNCHANGED result
     ELSE /\ pc' = "ret"
          /\ result' = IF cfg.AutoReadNext THEN "novel_complete"
                        ELSE "chapter_complete"
          /\ UNCHANGED <<args, depth>>
  /\ UNCHANGED <<store, memory, cmd, targetChapterIndex, startSegmentIndex,
                 chapterChanged, segIdx, segmentsReadInSession, startPos,
                 speech, listener, ending, parse>>

\* ------------------------------------------------------------------------
\* Exit of main: the deferred saveOnExit (lines 69-71, 149-159)
\* ------------------------------------------------------------------------
MainSaveProgress ==
  /\ pc = "ret"
  /\ IF progressDirty
     THEN diskProg' = progressData /\ progressDirty' = FALSE
     ELSE UNCHANGED <<diskProg, progressDirty>>
  /\ pc' = "ret_cfg"
  /\ UNCHANGED <<diskCfg, cfg, configDirty, progressData, activeNovel, cmd,
                 locals, speech, listener, ending, parse, result>>

MainSaveConfigExit ==
  /\ pc = "ret_cfg"
  /\ IF configDirty
     THEN diskCfg' = cfg /\ configDirty' = FALSE
     ELSE UNCHANGED <<diskCfg, configDirty>>
  /\ Die("return")
  /\ UNCHANGED <<diskProg, cfg, progressData, progressDirty, activeNovel, cmd,
                 locals, spoken, result>>

\* ------------------------------------------------------------------------
\* The signal goroutine (setupSignalHandler, lines 138-147)
\* ------------------------------------------------------------------------
Running == pc \notin {"off", "exited"}

\* a signal arrives; saveOnExit reads progressDirty and SaveProgress
\* marshals the map
SigReceive ==
  /\ Running
  /\ sig = "wait"
  /\ IF progressDirty
     THEN sig' = "s_write" /\ sigSnap' = progressData
     ELSE sig' = "s_cfg" /\ UNCHANGED sigSnap
  /\ sigMark' = <<pc, Len(spoken)>>
  /\ UNCHANGED <<store, memory, pc, cmd, locals, speech, ending, parse, result>>

\* os.WriteFile of the marshalled progress
SigWriteProgress ==
  /\ Running
  /\ sig = "s_write"
  /\ diskProg' = sigSnap
  /\ sig' = "s_clear"
  /\ sigSnap' = NoProgress
  /\ UNCHANGED sigMark
  /\ UNCHANGED <<diskCfg, memory, pc, cmd, locals, speech, ending, parse, result>>

\* saveProgress, line 664
SigClearDirty ==
  /\ Running
  /\ sig = "s_clear"
  /\ progressDirty' = FALSE
  /\ sig' = "s_cfg"
  /\ UNCHANGED <<store, cfg, configDirty, progressData, activeNovel, pc, cmd,
                 locals, speech, sigSnap, sigMark, ending, parse, result>>

\* the config is saved if dirty, then os.Exit(0)
SigSaveConfigExit ==
  /\ Running
  /\ sig = "s_cfg"
  /\ IF configDirty
     THEN diskCfg' = cfg /\ configDirty' = FALSE
     ELSE UNCHANGED <<diskCfg, configDirty>>
  /\ Die("signal")
  /\ UNCHANGED <<diskProg, cfg, progressData, progressDirty, activeNovel, cmd,
                 locals, spoken, result>>

\* ------------------------------------------------------------------------
\* Environment
\* ------------------------------------------------------------------------
\* `say` ends: cmd.Wait returns and the result is put on the channel
SpeechFinish(res) ==
  /\ Running
  /\ inflight > 0
  /\ inflight' = inflight - 1
  /\ doneChan' = IF doneChan = "open" THEN res ELSE doneChan
  /\ UNCHANGED <<store, memory, pc, cmd, locals, spoken, listener, ending, parse, result>>

\* the process is killed, or the machine stops
Crash ==
  /\ Running
  /\ Die("crash")
  /\ UNCHANGED <<store, memory, cmd, locals, spoken, result>>

\* the largest number of pieces of a chapter of p
RECURSIVE MaxLen(_)
MaxLen(ss) == IF ss = <<>> THEN 0
              ELSE LET m == MaxLen(Tail(ss)) IN
                   IF Len(Head(ss)) > m THEN Len(Head(ss)) ELSE m

EditValues(p, f) ==
  {[ch |-> c, seg |-> g] : c \in -1..(Len(ChaptersOf[p][f]) - 1 + Over),
                           g \in -1..(MaxLen(SegmentsOf[p][f]) - 1 + Over)}

\* progress.json is changed between two runs (edited, restored, damaged):
\* the record of a library entry gets arbitrary indices, or all records go.
EditProgressFile ==
  /\ pc = "off"
  /\ \/ \E p \in DOMAIN diskCfg.Novels :
          \E v \in EditValues(p, diskCfg.Novels[p]) : diskProg' = Put(diskProg, p, v)
     \/ diskProg' = NoProgress
  /\ diskProg' # diskProg
  /\ UNCHANGED <<diskCfg, memory, pc, cmd, locals, speech, listener, ending, parse, result>>

\* the memory of a process that has ended is taken back
ProcessGone ==
  /\ pc = "exited"
  /\ pc' = "off"
  /\ cfg' = DefaultConfig
  /\ configDirty' = FALSE
  /\ progressData' = NoProgress
  /\ progressDirty' = FALSE
  /\ activeNovel' = ""
  /\ cmd' = "none"
  /\ args' = <<>>
  /\ targetChapterIndex' = 0
  /\ startSegmentIndex' = 0
  /\ chapterChanged' = FALSE
  /\ segIdx' = 0
  /\ segmentsReadInSession' = 0
  /\ depth' = 0
  /\ spoken' = <<>>
  /\ startPos' = NoPos
  /\ result' = "none"
  /\ exitKind' = "none"
  /\ diedAt' = "none"
  /\ doneChan' = "none"
  /\ sigMark' = NoMark
  /\ UNCHANGED <<store, inflight, sig, sigSnap, parse>>

Next ==
  \/ \E p \in AddPaths : handleAdd(p)
  \/ \E i \in 0..IdxMax : handleRemove(i)
  \/ \E i \in 0..IdxMax : handleSwitch(i)
  \/ SwFlush
  \/ SwSet
  \/ SwSave
  \/ \E t \in Settings : handleConfig(t)
  \/ handleListNovels
  \/ handleChapters
  \/ handleWhere
  \/ \E a \in ReadArgs : CmdRead(a)
  \/ handleNext
  \/ handlePrev
  \/ RdEntry
  \/ RdChapterIndex
  \/ RdChapterSave
  \/ RdValidate
  \/ RdLoopEnd
  \/ RdSkipEmpty
  \/ \E started \in BOOLEAN : RdSpeak(started)
  \/ RdUpdate
  \/ RdReceive
  \/ RdAutoNext
  \/ MainSaveProgress
  \/ MainSaveConfigExit
  \/ SigReceive
  \/ SigWriteProgress
  \/ SigClearDirty
  \/ SigSaveConfigExit
  \/ \E r \in {"ok", "err"} : SpeechFinish(r)
  \/ Crash
  \/ ProcessGone
  \/ EditProgressFile

Spec == Init /\ [][Next]_vars

\* The main goroutine runs when it can, and every `say` that was started
\* ends: handleRead is not left waiting for ever.
MainStep ==
  \/ RdEntry \/ RdChapterIndex \/ RdChapterSave \/ RdValidate
  \/ RdLoopEnd \/ RdSkipEmpty \/ (\E started \in BOOLEAN : RdSpeak(started))
  \/ RdUpdate \/ RdReceive \/ RdAutoNext

SpecLive ==
  /\ Spec
  /\ WF_vars(MainStep)
  /\ WF_vars(\E r \in {"ok", "err"} : SpeechFinish(r))

\* The tool started on a config.json whose pointer names an entry that is
\* not in the library, as a remove ended by a signal between lines 289 and
\* 300 leaves it, or on the files of a fresh installation.
StaleConfigs ==
  {[Novels |-> n, ActiveNovelPath |-> "a", AutoReadNext |-> b] :
     n \in {NoNovels, [p \in {"b"} |-> "markdown"]}, b \in BOOLEAN}

InitStale ==
  /\ diskCfg \in StaleConfigs \cup {DefaultConfig}
  /\ diskProg = [p \in DOMAIN diskCfg.Novels |-> [ch |-> 0, seg |-> 0]]
  /\ InitProcess
  /\ NoText

SpecStale == InitStale /\ [][Next]_vars

\* Sequences of commands on files only the tool writes: every process runs
\* to the end of its command, to log.Fatalf or to the exit made by the signal
\* listener; none is killed and progress.json is not changed from outside.
NextCommands ==
  \/ \E p \in AddPaths : handleAdd(p)
  \/ \E i \in 0..IdxMax : handleRemove(i)
  \/ \E i \in 0..IdxMax : handleSwitch(i)
  \/ SwFlush
  \/ SwSet
  \/ SwSave
  \/ \E t \in Settings : handleConfig(t)
  \/ handleListNovels
  \/ handleChapters
  \/ handleWhere
  \/ \E a \in ReadArgs : CmdRead(a)
  \/ handleNext
  \/ handlePrev
  \/ RdEntry
  \/ RdChapterIndex
  \/ RdChapterSave
  \/ RdValidate
  \/ RdLoopEnd
  \/ RdSkipEmpty
  \/ \E started \in BOOLEAN : RdSpeak(started)
  \/ RdUpdate
  \/ RdReceive
  \/ RdAutoNext
  \/ MainSaveProgress
  \/ MainSaveConfigExit
  \/ SigReceive
  \/ SigWriteProgress
  \/ SigClearDirty
  \/ SigSaveConfigExit
  \/ \E r \in {"ok", "err"} : SpeechFinish(r)
  \/ ProcessGone

SpecCommands == Init /\ [][NextCommands]_vars

\* ------------------------------------------------------------------------
\* The parser and the segmenter on their own: DetectFormat, ParseNovel and
\* the split of a chapter body, applied to a file drawn from a bounded set
\* ------------------------------------------------------------------------
MaxLines == 4    \* files have at most MaxLines lines
MaxRuns == 2     \* DetectFormat is called at most MaxRuns times on a file

\* the lines files are made of: a heading of each format (the markdown one
\* with a trailing space), a text line, a whitespace-only line and an empty
\* line
LineSet ==
  { <<"#", SP, "h", SP>>,
    ChapterWord \o <<SP, "1">>,
    <<"D", "1", "Z">>,
    <<"x">>,
    <<SP>>,
    <<>> }

\* the lines joined by "\n"; an empty last line gives a file ending in "\n"
Docs == UNION { {Join(ls, NL) : ls \in [1..n -> LineSet]} : n \in 0..MaxLines }

InitParser ==
  /\ InitTool
  /\ doc \in Docs
  /\ runs = <<>>
  /\ regexName = ""
  /\ chapters = <<>>
  /\ body = <<>>
  /\ segs = <<>>

\* handleRead, lines 426-450: the texts it submits for a chapter body, the
\* pieces of the split that are not empty after trimming, trimmed
\* the loop of handleRead without the skip of empty pieces (lines 444-446)
SpokenTexts_NoSkip(b) ==
  LET ss == segmentSeparatorSplit(b)
  IN [i \in 1..Len(ss) |-> TrimSpace(ss[i])]

SpokenTexts(b) ==
  LET ss == segmentSeparatorSplit(b)
      trimmed == [i \in 1..Len(ss) |-> TrimSpace(ss[i])]
  IN SelectSeq(trimmed, LAMBDA t : t # <<>>)

\* one call of DetectFormat on the file (handleAdd calls it before
\* ParseNovel)
CallDetectFormat ==
  /\ regexName = ""
  /\ Len(runs) < MaxRuns
  /\ \E r \in DetectFormat(doc) : runs' = Append(runs, r)
  /\ UNCHANGED <<tool, doc, regexName, chapters, body, segs>>

\* ParseNovel on the file with the expression of that name
CallParseNovel(name) ==
  /\ regexName = ""
  /\ regexName' = name
  /\ chapters' = ParseNovel(doc, name)
  /\ UNCHANGED <<tool, doc, runs, body, segs>>

\* the body of a chapter ParseNovel returned, or the file taken as a body,
\* goes through the split and the loop's filter
CallSplit(b) ==
  /\ regexName # ""
  /\ body' = b
  /\ segs' = SpokenTexts(b)
  /\ UNCHANGED <<tool, doc, runs, regexName, chapters>>

NextParser ==
  \/ CallDetectFormat
  \/ \E name \in Formats : CallParseNovel(name)
  \/ \E b \in {doc} \cup {chapters[i].Content : i \in 1..Len(chapters)} : CallSplit(b)

SpecParser == InitParser /\ [][NextParser]_vars


\* ------------------------------------------------------------------------
\* The heading test of DetectFormat against that of ParseNovel: files whose
\* headings stand behind white space of either kind
\* ------------------------------------------------------------------------
\* a markdown heading; the same behind a blank, behind an ideographic
\* space, and cut after its blank; a "chinese" heading behind an
\* ideographic space; a text line
LineSetH ==
  { <<"#", SP, "h">>,
    <<SP, "#", SP, "h">>,
    <<IDSP, "#", SP, "h">>,
    <<"#", SP>>,
    <<IDSP, "D", "1", "Z">>,
    <<"x">> }

DocsH == UNION { {Join(ls, NL) : ls \in [1..n -> LineSetH]} : n \in 0..MaxLines }

InitHeading ==
  /\ InitTool
  /\ doc \in DocsH
  /\ runs = <<>>
  /\ regexName = ""
  /\ chapters = <<>>
  /\ body = <<>>
  /\ segs = <<>>

SpecHeading == InitHeading /\ [][NextParser]_vars

\* ------------------------------------------------------------------------
\* The start of a process on stored files in any condition: LoadConfig and
\* LoadProgress of the config package, and lines 44-76 of main.  The
\* command is `list`, which changes nothing.
\* ------------------------------------------------------------------------
\* a file that is not there, one that cannot be read (os.ReadFile fails
\* with another error than "not exist"), one that is not JSON of the
\* expected shape
NoFile(kind) == [file |-> kind]
AbsentFile == NoFile("absent")
UnreadableFile == NoFile("unreadable")
CorruptFile == NoFile("corrupt")

\* the error result of a load
LoadError == [err |-> "load"]

\* LoadConfig, lines 39-62
LoadConfig(file) ==
  IF file = AbsentFile THEN DefaultConfig
  ELSE IF file = UnreadableFile \/ file = CorruptFile THEN LoadError
  ELSE file

\* LoadProgress with the unmarshalling error returned (line 113)
LoadProgress_Strict(file) ==
  IF file = AbsentFile THEN NoProgress
  ELSE IF file = UnreadableFile \/ file = CorruptFile THEN LoadError
  ELSE file

\* LoadProgress, lines 100-123
LoadProgress(file) ==
  IF file = AbsentFile THEN NoProgress
  ELSE IF file = UnreadableFile THEN LoadError
  ELSE IF file = CorruptFile THEN NoProgress
  ELSE file

\* the config.json and progress.json a process may find
ConfigFiles ==
  {AbsentFile, UnreadableFile, CorruptFile}
  \cup {[Novels |-> n, ActiveNovelPath |-> a, AutoReadNext |-> b] :
          n \in {NoNovels, [p \in {"a"} |-> "markdown"], [p \in Paths |-> "markdown"]},
          a \in {"", "a"}, b \in BOOLEAN}

ProgressFiles ==
  {AbsentFile, UnreadableFile, CorruptFile, NoProgress}
  \cup {[p \in {"a"} |-> [ch |-> c, seg |-> 0]] : c \in 0..2}

InitLoad ==
  /\ diskCfg \in ConfigFiles
  /\ diskProg \in ProgressFiles
  /\ InitProcess
  /\ NoText

\* main, lines 44-76 and 112-113, with `list`: both files are loaded, an
\* error of either load ends the process; a pointer to an entry that is
\* not in the library is cleared
MainList ==
  /\ Boot("list")
  /\ args' = <<>>
  /\ UNCHANGED store
  /\ LET c == LoadConfig(diskCfg)
         pd == IF c = LoadError THEN LoadError ELSE LoadProgress(diskProg)
         stale == /\ c # LoadError /\ c.ActiveNovelPath # ""
                  /\ c.ActiveNovelPath \notin DOMAIN c.Novels
     IN
     /\ cfg' = IF c = LoadError THEN DefaultConfig
               ELSE IF stale THEN [c EXCEPT !.ActiveNovelPath = ""] ELSE c
     /\ progressData' = IF pd = LoadError THEN NoProgress ELSE pd
     /\ progressDirty' = FALSE
     /\ configDirty' = (pd # LoadError /\ stale)
     /\ activeNovel' = IF pd # LoadError THEN cfg'.ActiveNovelPath ELSE ""
     /\ IF pd = LoadError THEN Abort ELSE pc' = "ret" /\ Alive

NextLoad ==
  \/ MainList
  \/ MainSaveProgress
  \/ MainSaveConfigExit
  \/ ProcessGone

SpecLoad == InitLoad /\ [][NextLoad]_vars

\* ------------------------------------------------------------------------
\* Reads of the long file "l", the only entry of the library, with
\* auto_next on or off and no signal
\* ------------------------------------------------------------------------
InitLong ==
  /\ diskCfg \in {[Novels |-> [p \in {"l"} |-> "markdown"],
                   ActiveNovelPath |-> "l", AutoReadNext |-> b] : b \in BOOLEAN}
  /\ diskProg = [p \in {"l"} |-> [ch |-> 0, seg |-> 0]]
  /\ InitProcess
  /\ NoText

NextLong ==
  \/ \E a \in ReadArgs : CmdRead(a)
  \/ RdEntry
  \/ RdChapterIndex
  \/ RdChapterSave
  \/ RdValidate
  \/ RdLoopEnd
  \/ RdSkipEmpty
  \/ \E started \in BOOLEAN : RdSpeak(started)
  \/ RdUpdate
  \/ RdReceive
  \/ RdAutoNext
  \/ MainSaveProgress
  \/ MainSaveConfigExit
  \/ \E r \in {"ok", "err"} : SpeechFinish(r)
  \/ ProcessGone

SpecLong == InitLong /\ [][NextLong]_vars

\* ------------------------------------------------------------------------
\* Properties
\* ------------------------------------------------------------------------
NarrationCmds == {"read", "next", "prev"}

Pos(c, g) == [ch |-> c, seg |-> g]

\* the Progress a later process finds for p (handleRead starts an entry
\* without a record at (0, 0), lines 375-381)
Durable(p) == IF p \in DOMAIN diskProg THEN diskProg[p] ELSE Pos(0, 0)

\* the number of pieces of chapter c that are not empty after trimming
SegmentCount(p, c) ==
  LET ss == SegmentsOf[p][cfg.Novels[p]][c + 1] IN
  Cardinality({i \in 1..Len(ss) : TrimSpace(ss[i]) # <<>>})

\* the number of pieces the separator yields for chapter c
PieceCount(p, c) == Len(SegmentsOf[p][cfg.Novels[p]][c + 1])

Last(q) == q[Len(q)]

\* handleRead has run into its segment loop and has returned
LoopResults == {"submit_failed", "speech_failed", "stopped",
                "chapter_complete", "novel_complete"}

\* C1 as stated, in the reading most favourable to it: once a narration
\* command has run its segment loop and the process has returned, the
\* Progress of the active entry has 0 <= chapterIndex < chapterCount and
\* 0 <= segmentIndex < segmentCount, the number of non-empty trimmed pieces
\* of that chapter.
C1_Original ==
  (pc = "exited" /\ exitKind = "return" /\ cmd \in NarrationCmds
     /\ result \in LoopResults)
  => /\ 0 <= Cur.ch /\ Cur.ch < Len(Chapters)
     /\ 0 <= Cur.seg /\ Cur.seg < SegmentCount(activeNovel, Cur.ch)

\* C1 amended: when handleRead has returned from its segment loop, the
\* Progress of the active entry in memory has 0 <= chapterIndex <
\* chapterCount and 0 <= segmentIndex < the number of pieces the separator
\* yields for that chapter (whitespace-only pieces counted, one piece for an
\* empty body).
C1_ProgressBounds ==
  result \in LoopResults
  => /\ 0 <= Cur.ch /\ Cur.ch < Len(Chapters)
     /\ 0 <= Cur.seg /\ Cur.seg < PieceCount(activeNovel, Cur.ch)

\* a read has stopped at the third piece of a chapter with two non-empty ones
C1_Witness ==
  /\ pc = "exited" /\ exitKind = "return" /\ result = "stopped"
  /\ Cur = Pos(0, 2)
  /\ SegmentCount(activeNovel, 0) = 2

\* C2 as stated: the process dies (crash or signal) after the submission
\* of segment k has succeeded, while it waits for the completion; the
\* durable Progress is then k.
C2_Original ==
  (pc = "exited" /\ exitKind \in {"crash", "signal"}
     /\ diedAt = "rd_wait" /\ doneChan = "open")
  => Durable(activeNovel) = Pos(targetChapterIndex, segIdx)

\* C2 amended: the process dies while it waits for the completion of
\* segment k, Progress in memory being k.  If it is ended by the signal
\* listener and the signal came during that wait, the durable Progress is
\* k.  If it crashes and no signal has come, the durable Progress is the
\* last one flushed: in the chapter of k, at a segment not after k.
C2_AtLeastReached ==
  (pc = "exited" /\ diedAt = "rd_wait" /\ doneChan = "open")
  => /\ (exitKind = "signal" /\ sigMark = <<"rd_wait", Len(spoken)>>)
          => Durable(activeNovel) = Pos(targetChapterIndex, segIdx)
     /\ (exitKind = "crash" /\ sigMark = NoMark)
          => /\ Durable(activeNovel).ch = targetChapterIndex
             /\ Durable(activeNovel).seg <= segIdx
             /\ Durable(activeNovel).seg >= 0

\* a signal during the wait for segment 2 has put segment 2 on disk
C2_Witness ==
  /\ pc = "exited" /\ exitKind = "signal" /\ diedAt = "rd_wait" /\ doneChan = "open"
  /\ sigMark = <<"rd_wait", Len(spoken)>>
  /\ segIdx = 2
  /\ Durable(activeNovel) = Pos(targetChapterIndex, 2)

\* C3: once a read that changed chapter has submitted a speech request of
\* the new chapter, the durable Progress is in the new chapter.
C3_ChapterPersisted ==
  (pc # "off" /\ chapterChanged /\ spoken # <<>>
     /\ Last(spoken)[1] = targetChapterIndex)
  => Durable(activeNovel).ch = targetChapterIndex

\* C4: at most one speech request is in flight.
C4_OneInFlight == inflight <= 1

\* a request of a chapter reached by auto-advance is in flight
C4_Witness == inflight = 1 /\ depth > 0 /\ pc = "rd_wait" /\ doneChan = "open"

\* C5: the record the signal listener is about to write is never one it
\* read between the two field writes of a chapter change (new chapterIndex,
\* segmentIndex of the chapter before).
C5_NoTornRecord ==
  (sig = "s_write" /\ sigMark[1] = "rd_chg2") => sigSnap[activeNovel].seg = 0

\* C6: when the process has ended by a return, by log.Fatalf or by a
\* signal, nothing in memory is still marked dirty.
C6_FlushedBeforeExit ==
  (pc = "exited" /\ exitKind \in {"return", "fatal", "signal"})
  => ~progressDirty /\ ~configDirty

\* C7 as stated: after a synchronous submission failure Progress is at the
\* last segment whose submission succeeded.
C7_Original ==
  (result = "submit_failed" /\ spoken # <<>>)
  => Cur = Pos(Last(spoken)[1], Last(spoken)[2])

\* C7 amended: the step in which a submission fails changes neither
\* Progress nor the dirty flag, starts no request and goes to the return of
\* handleRead without ending the process; no request is submitted after it;
\* Progress is then at the last segment submitted in the current chapter
\* or, when none was, at the start position resolved for that chapter.
C7_SubmitFailure ==
  [][/\ (pc = "rd_loop" /\ result' = "submit_failed")
          => /\ progressData' = progressData
             /\ progressDirty' = progressDirty
             /\ spoken' = spoken /\ inflight' = inflight
             /\ pc' = "ret" /\ exitKind' = "none"
             /\ Cur' = IF spoken # <<>> /\ Last(spoken)[1] = targetChapterIndex
                       THEN Pos(targetChapterIndex, Last(spoken)[2])
                       ELSE Pos(targetChapterIndex, startSegmentIndex)
     /\ (result = "submit_failed" /\ pc # "exited") => spoken' = spoken
    ]_vars

\* a submission has failed after another had succeeded, and main returned
C7_Witness ==
  /\ result = "submit_failed" /\ spoken # <<>>
  /\ pc = "exited" /\ exitKind = "return"

\* C8: after a completion failure for segment k nothing more is submitted,
\* Progress is (chapter, k), and when the process has ended by a return or
\* a signal the durable Progress is (chapter, k).
C8_CompletionFailure ==
  result = "speech_failed"
  => /\ spoken # <<>> /\ Last(spoken) = <<targetChapterIndex, segIdx>>
     /\ Cur = Pos(targetChapterIndex, segIdx)
     /\ (pc = "exited" /\ exitKind \in {"return", "signal"})
          => Durable(activeNovel) = Cur

\* C9 as stated: with autoAdvance off, a narration command that has run
\* its loop without a speech failure and returned has submitted exactly one
\* request.
C9_Original ==
  (pc = "exited" /\ exitKind = "return" /\ cmd \in NarrationCmds
     /\ ~cfg.AutoReadNext /\ result \in {"stopped", "chapter_complete"})
  => Len(spoken) = 1

\* the indices >= g of the pieces of chapter c that are spoken
PiecesFrom(c, g) ==
  LET ss == SegmentsOf[activeNovel][cfg.Novels[activeNovel]][c + 1] IN
  SelectSeq([i \in 1..Len(ss) |-> i - 1],
            LAMBDA k : k >= g /\ TrimSpace(ss[k + 1]) # <<>>)

\* C9 amended: with autoAdvance off a process submits at most one request
\* and never calls handleRead again; after one request the loop is not
\* entered again; the command ends "stopped" with exactly one request, of
\* the first non-blank piece at or after the start, or it ends at the end of
\* the chapter with none, no such piece being there.
C9_OneSegment ==
  (Running /\ cmd \in NarrationCmds /\ ~cfg.AutoReadNext)
  => /\ Len(spoken) <= 1
     /\ depth = 0
     /\ spoken # <<>> => pc \notin {"rd_loop", "rd_after", "rd_entry"}
     /\ result = "stopped"
          => /\ Len(spoken) = 1
             /\ PiecesFrom(startPos[1], startPos[2]) # <<>>
             /\ spoken[1] = <<startPos[1], Head(PiecesFrom(startPos[1], startPos[2]))>>
     /\ result = "chapter_complete"
          => spoken = <<>> /\ PiecesFrom(startPos[1], startPos[2]) = <<>>

\* one request was submitted and the command stopped with pieces left
C9_Witness ==
  /\ pc = "ret" /\ cmd \in NarrationCmds /\ ~cfg.AutoReadNext
  /\ result = "stopped" /\ Len(spoken) = 1
  /\ segIdx < Len(Segments) - 1

\* the requests of a narration from (c, g) to the end of the novel
RECURSIVE NarrationFrom(_, _)
NarrationFrom(c, g) ==
  IF c >= Len(Chapters) THEN <<>>
  ELSE [i \in 1..Len(PiecesFrom(c, g)) |-> <<c, PiecesFrom(c, g)[i]>>]
       \o NarrationFrom(c + 1, 0)

IsPrefix(s, t) == Len(s) <= Len(t) /\ SubSeq(t, 1, Len(s)) = s

\* C10: with autoAdvance on, the requests submitted are, in order and with
\* none left out, the non-blank pieces from the start position on, each
\* later chapter from its segment 0; handleRead calls itself with the
\* chapter after the current one; the narration ends as complete only in
\* the last chapter, all of them submitted.
C10_AutoAdvance ==
  (Running /\ cmd \in NarrationCmds /\ cfg.AutoReadNext)
  => /\ startPos # NoPos => IsPrefix(spoken, NarrationFrom(startPos[1], startPos[2]))
     /\ startPos = NoPos => spoken = <<>>
     /\ (pc = "rd_entry" /\ depth > 0) => args = <<targetChapterIndex + 2>>
     /\ result \in LoopResults
          => result \in {"novel_complete", "submit_failed", "speech_failed"}
     /\ result = "novel_complete"
          => /\ targetChapterIndex = Len(Chapters) - 1
             /\ spoken = NarrationFrom(startPos[1], startPos[2])

\* three chapters were narrated to the end of the novel
C10_Witness ==
  /\ pc = "ret" /\ cfg.AutoReadNext /\ result = "novel_complete"
  /\ depth = 2 /\ Len(spoken) = 3

\* C11: when read, next or prev has returned (no signal having come), the
\* durable Progress of the active entry is in range: a record out of range
\* before the command has been reset and the correction persisted.
C11_SelfHealing ==
  (pc = "exited" /\ exitKind = "return" /\ sigMark = NoMark
     /\ cmd \in NarrationCmds /\ activeNovel # "" /\ Len(Chapters) > 0
     /\ activeNovel \in DOMAIN diskProg)
  => LET pr == diskProg[activeNovel] IN
     /\ 0 <= pr.ch /\ pr.ch < Len(Chapters)
     /\ 0 <= pr.seg /\ pr.seg < PieceCount(activeNovel, pr.ch)

\* the highest score of the file under study
TopScore == LET sc == Scores(doc) IN
            CHOOSE m \in {sc[f] : f \in Formats} : \A f \in Formats : sc[f] <= m

\* the formats that have it
TopFormats == {f \in Formats : Scores(doc)[f] = TopScore}

\* C12: all calls of DetectFormat on the same file return the same result.
C12_DetectDeterministic ==
  \A i, j \in 1..Len(runs) : runs[i] = runs[j]

\* the priority order of the formats
Priority == <<"chinese", "english", "markdown">>

\* C13: when several formats share the highest score and it is > 1,
\* DetectFormat returns the first of them in the order chinese, english,
\* markdown.
C13_TiePriority ==
  (TopScore > 1 /\ Cardinality(TopFormats) >= 2)
  => \A i \in 1..Len(runs) :
       runs[i] = Head(SelectSeq(Priority, LAMBDA f : f \in TopFormats))

\* C14: when some format scores > 1, DetectFormat returns a format whose
\* score is > 1 and not below any other; when none does it returns markdown
\* if markdown has a match and the error otherwise; an empty file gives the
\* error and three markdown headings with no other match give markdown.
C14_DetectResult ==
  \A i \in 1..Len(runs) :
    LET r == runs[i]
        sc == Scores(doc)
    IN /\ TopScore > 1 => r \in TopFormats
       /\ r \in Formats /\ sc[r] > 1 => r \in TopFormats
       /\ TopScore <= 1 => r = IF sc["markdown"] >= 1 THEN "markdown" ELSE ""
       /\ doc = <<>> => r = ""
       /\ (sc["markdown"] = 3 /\ sc["english"] = 0 /\ sc["chinese"] = 0)
            => r = "markdown"

\* DetectFormat has run on a file with three markdown headings and no other
\* match
C14_Witness ==
  /\ runs # <<>> /\ runs[1] = "markdown"
  /\ Scores(doc) = [f \in Formats |-> IF f = "markdown" THEN 3 ELSE 0]

\* C15 as stated: on a file in which every format has exactly one match
\* DetectFormat returns the error.
C15_Original ==
  (\A f \in Formats : Scores(doc)[f] = 1)
  => \A i \in 1..Len(runs) : runs[i] = ""

\* C15 amended: on a file in which every format has exactly one match
\* DetectFormat returns markdown.
C15_OneMatchEach ==
  (\A f \in Formats : Scores(doc)[f] = 1)
  => \A i \in 1..Len(runs) : runs[i] = "markdown"

\* DetectFormat has run twice on such a file
C15_Witness ==
  /\ \A f \in Formats : Scores(doc)[f] = 1
  /\ Len(runs) = 2 /\ runs[2] = "markdown"

\* the lines of the file under study, and the places of its headings
DocLines == ScanLines(doc)
Headings == SelectSeq([i \in 1..Len(DocLines) |-> i],
                      LAMBDA i : MatchString(regexName, DocLines[i]))

\* lines trimmed, the empty ones left out
Norm(ls) == SelectSeq([i \in 1..Len(ls) |-> TrimSpace(ls[i])], LAMBDA l : l # <<>>)

\* each chapter's title followed by the lines of its body, in order
RECURSIVE Rebuilt(_)
Rebuilt(chs) ==
  IF chs = <<>> THEN <<>>
  ELSE <<Head(chs).Title>> \o StringsSplit(Head(chs).Content, NL)
       \o Rebuilt(Tail(chs))

\* C16: when ParseNovel succeeds, the titles and bodies of the chapters in
\* order are, up to the trimming of whitespace, the lines of the file from
\* its first heading to its end.
C16_PartitionLaw ==
  (regexName # "" /\ chapters # <<>>)
  => Norm(Rebuilt(chapters))
       = Norm(SubSeq(DocLines, Headings[1], Len(DocLines)))

\* two chapters, the first with a body, and a line before the first heading
C16_Witness ==
  /\ regexName = "markdown" /\ Len(chapters) = 2
  /\ Headings[1] = 2 /\ DocLines[1] = <<"x">>
  /\ chapters[1].Content = <<"x">>

\* the lines from..to, each followed by "\n"
RECURSIVE LinesText(_, _)
LinesText(from, to) ==
  IF from > to THEN <<>>
  ELSE DocLines[from] \o <<NL>> \o LinesText(from + 1, to)

\* C17: ParseNovel returns one chapter per heading line, in the order of
\* the file; its title is the heading trimmed, its body the lines up to the
\* next heading (or the end) trimmed as a whole; the lines before the first
\* heading are in no chapter; without a heading the call fails.
C17_SplitChapters ==
  regexName # ""
  => /\ Len(chapters) = Len(Headings)
     /\ \A k \in 1..Len(Headings) :
          LET next == IF k < Len(Headings) THEN Headings[k + 1]
                      ELSE Len(DocLines) + 1
          IN /\ chapters[k].Title = TrimSpace(DocLines[Headings[k]])
             /\ chapters[k].Content = TrimSpace(LinesText(Headings[k] + 1, next - 1))

\* two chapters of an english file: text before the first heading, a body
\* of two lines, a last chapter without body
C17_Witness ==
  /\ regexName = "english" /\ Len(chapters) = 2
  /\ Headings = <<2, 4>> /\ Len(DocLines) = 4
  /\ chapters[2].Content = <<>>

\* C18: the texts the narration loop submits for a chapter body are never
\* empty after trimming; there is at least one when the body has a
\* character that is not whitespace, and none when the body is empty or
\* all whitespace.
C18_SegmenterTotality ==
  regexName # ""
  => /\ \A i \in 1..Len(segs) : TrimSpace(segs[i]) # <<>>
     /\ TrimSpace(body) # <<>> => Len(segs) >= 1
     /\ TrimSpace(body) = <<>> => Len(segs) = 0

\* a body in three pieces, the middle one of whitespace only
C18_Witness ==
  /\ regexName # "" /\ Len(segmentSeparatorSplit(body)) = 3
  /\ segmentSeparatorSplit(body)[2] = <<SP>>
  /\ Len(segs) = 2

\* no line inside the body is empty or of whitespace only
NoBlankLine(b) ==
  LET ls == StringsSplit(TrimSpace(b), NL)
  IN \A i \in 1..Len(ls) : TrimSpace(ls[i]) # <<>>

\* C19 as stated: a body without blank lines inside is one segment, the
\* whole body.
C19_Original ==
  (regexName # "" /\ TrimSpace(body) # <<>> /\ NoBlankLine(body))
  => segs = <<TrimSpace(body)>>

\* C19: the segments of a body are its lines, trimmed, the blank ones left
\* out: a body of several consecutive non-blank lines is one segment per
\* line, and only a body of a single non-blank line is one segment.
C19_OneSegmentPerLine ==
  regexName # "" => segs = Norm(StringsSplit(body, NL))

\* a chapter body of two consecutive non-blank lines read as two segments
C19_Witness ==
  /\ regexName # "" /\ chapters # <<>> /\ body = chapters[1].Content
  /\ NoBlankLine(body) /\ Len(StringsSplit(body, NL)) = 2
  /\ Len(segs) = 2

\* the index is not one of those `list` shows for the stored library
OutOfRange(index) ==
  index < 1 \/ index > Cardinality(DOMAIN diskCfg.Novels)

\* C20: remove and switch with an index outside 1..(size of the library),
\* 0, size + 1 and any index on an empty library included, end in the
\* out-of-range error; both files stay as they were, and the library, the
\* active pointer and the Progress records of the process are those it
\* loaded.
C20_OutOfRange ==
  [][\A index \in 0..IdxMax :
       ((handleRemove(index) \/ handleSwitch(index)) /\ OutOfRange(index))
       => /\ pc' = "exited" /\ exitKind' = "fatal"
          /\ diskCfg' = diskCfg /\ diskProg' = diskProg
          /\ cfg'.Novels = diskCfg.Novels
          /\ cfg'.ActiveNovelPath = LoadedCfg.ActiveNovelPath
          /\ progressData' = diskProg]_vars

\* switch has failed on a library of two entries with an active entry and
\* Progress records
C20_Witness ==
  /\ pc = "exited" /\ cmd = "switch" /\ exitKind = "fatal"
  /\ DOMAIN diskCfg.Novels = Paths
  /\ diskCfg.ActiveNovelPath # ""
  /\ DOMAIN diskProg # {}

\* add cannot take p: it is in the library, there is no such file, no
\* format is detected, or the detected format gives no chapter
AddFails(p) ==
  \/ p \in DOMAIN diskCfg.Novels
  \/ p \notin DOMAIN File
  \/ \A r \in DetectFormat(File[p]) : r = "" \/ ParseNovel(File[p], r) = <<>>

\* C21: an add that fails leaves the library, the active pointer and the
\* Progress records as they were loaded, with nothing marked dirty, so
\* that nothing is written while the process ends; for a path already in
\* the library the command returns, and in the other cases the process
\* aborts.
C21_FailedAdd ==
  [][/\ \A p \in AddPaths :
          (handleAdd(p) /\ AddFails(p))
          => /\ diskCfg' = diskCfg /\ diskProg' = diskProg
             /\ cfg'.Novels = diskCfg.Novels
             /\ cfg'.ActiveNovelPath = diskCfg.ActiveNovelPath
             /\ progressData' = diskProg
             /\ ~configDirty' /\ ~progressDirty'
             /\ IF p \in DOMAIN diskCfg.Novels
                THEN pc' = "ret" /\ exitKind' = "none"
                ELSE pc' = "exited" /\ exitKind' = "fatal"
     /\ (cmd = "add" /\ pc \in {"ret", "ret_cfg"}
           /\ ~configDirty /\ ~progressDirty)
        => (diskCfg' = diskCfg /\ diskProg' = diskProg)]_vars

\* the add of a file without chapters has aborted on a library with an
\* entry, an active pointer and a Progress record
C21_Witness ==
  /\ pc = "exited" /\ cmd = "add" /\ exitKind = "fatal"
  /\ diskCfg.ActiveNovelPath = "a"
  /\ "a" \in DOMAIN diskProg
  /\ cfg = diskCfg /\ progressData = diskProg

\* the entry a switch that goes on after its range check was asked for
SwitchTarget == getNovelsSorted(cfg)[args[1]]

\* C22: a switch to an entry that is not the active one changes the pointer
\* in memory only when no Progress is left dirty, writes the pointer to
\* config.json only after it has changed it in memory, and has written it
\* when it returns: from then on the durable pointer is the new entry.
C22_SwitchOrder ==
  [][/\ (cmd = "switch" /\ Running
         /\ cfg'.ActiveNovelPath # cfg.ActiveNovelPath)
        => (~progressDirty /\ diskProg = progressData /\ diskProg' = diskProg
            /\ diskCfg' = diskCfg
            /\ cfg'.ActiveNovelPath = SwitchTarget)
     /\ (cmd = "switch" /\ Running
         /\ diskCfg'.ActiveNovelPath # diskCfg.ActiveNovelPath)
        => (cfg.ActiveNovelPath = SwitchTarget /\ diskCfg' = cfg)
     /\ (cmd' = "switch" /\ pc' \in {"ret", "ret_cfg"})
        => /\ diskCfg'.ActiveNovelPath = getNovelsSorted(cfg')[args'[1]]
           /\ cfg'.ActiveNovelPath = diskCfg'.ActiveNovelPath]_vars

\* the process of a switch from "a" to "b" has returned
C22_Witness ==
  /\ pc = "exited" /\ cmd = "switch" /\ exitKind = "return"
  /\ args = <<2>>
  /\ diskCfg.ActiveNovelPath = "b"
  /\ "a" \in DOMAIN diskProg

\* C23 as stated: whatever the condition of config.json and progress.json,
\* the start of a process does not abort.
C23_Original ==
  (pc = "exited" /\ cmd = "list") => exitKind # "fatal"

\* C23: a process starts with the empty defaults for a config.json that is
\* absent and for a progress.json that is absent or corrupt; it aborts at
\* the start exactly when config.json is unreadable or corrupt or
\* progress.json is unreadable.
C23_LoadErrors ==
  (cmd = "list" /\ pc \in {"ret", "exited"})
  => /\ exitKind = "fatal"
        <=> (diskCfg \in {UnreadableFile, CorruptFile} \/ diskProg = UnreadableFile)
     /\ (exitKind # "fatal" /\ diskCfg = AbsentFile) => cfg = DefaultConfig
     /\ (exitKind # "fatal" /\ diskProg \in {AbsentFile, CorruptFile})
        => progressData = NoProgress

\* a process has ended normally on a library of two entries whose
\* progress.json is corrupt
C23_Witness ==
  /\ pc = "exited" /\ cmd = "list" /\ exitKind = "return"
  /\ diskProg = CorruptFile
  /\ DOMAIN cfg.Novels = Paths
  /\ progressData = NoProgress

\* C24: the first text a read with a chapter argument N submits is the
\* first segment of chapter N (no text of that chapter comes before it),
\* whatever Progress was stored.
C24_ExplicitChapter ==
  (cmd = "read" /\ depth = 0 /\ args # <<>> /\ spoken # <<>>)
  => /\ spoken[1][1] = args[1] - 1
     /\ \A i \in 1..spoken[1][2] :
          TrimSpace(SegmentsOf[activeNovel][cfg.Novels[activeNovel]][args[1]][i]) = <<>>

\* C25: with a stored chapter c of the active entry, next goes on to read
\* chapter c + 1 when there is one, and prev chapter c - 1 when there is
\* one: the first text submitted is the first segment of that chapter, and
\* (c + 1, 0), or (c - 1, 0), is on disk by then.  next at or after the last
\* chapter and prev at or before the first return at once: nothing is
\* submitted, Progress and the dirty flags are as loaded, and nothing is
\* written while the process ends.
C25_NextPrev ==
  [][/\ ((handleNext \/ handlePrev) /\ diskCfg.ActiveNovelPath # ""
           /\ diskCfg.ActiveNovelPath \in DOMAIN diskProg)
        => LET an == diskCfg.ActiveNovelPath
               n == Len(ChaptersOf[an][diskCfg.Novels[an]])
               t == diskProg[an].ch + (IF cmd' = "next" THEN 1 ELSE -1)
           IN /\ (0 <= t /\ t < n) => (pc' = "rd_entry" /\ args' = <<t + 1>>)
              /\ ((cmd' = "next" /\ t >= n) \/ (cmd' = "prev" /\ t < 0))
                 => /\ pc' = "ret" /\ result' = "none"
                    /\ progressData' = diskProg
                    /\ ~progressDirty' /\ ~configDirty'
                    /\ diskCfg' = diskCfg /\ diskProg' = diskProg
     /\ (cmd \in {"next", "prev"} /\ depth = 0 /\ spoken = <<>> /\ spoken' # <<>>)
        => /\ spoken'[1][1] = args[1] - 1
           /\ \A i \in 1..spoken'[1][2] : TrimSpace(Segments[i]) = <<>>
           /\ sigMark = NoMark => diskProg[activeNovel] = Pos(args[1] - 1, 0)
     /\ (cmd \in {"next", "prev"} /\ result = "none" /\ pc \in {"ret", "ret_cfg"})
        => /\ spoken = <<>> /\ spoken' = <<>>
           /\ diskCfg' = diskCfg /\ diskProg' = diskProg]_vars

\* next from chapter 2 has stopped after the first segment of chapter 3,
\* with (2, 0) on disk
C25_Witness ==
  /\ pc = "exited" /\ exitKind = "return" /\ cmd = "next"
  /\ args = <<3>> /\ depth = 0
  /\ spoken = << <<2, 0>> >>
  /\ diskProg[activeNovel] = Pos(2, 0)

\* C26: when the process has been ended by the signal listener, what was
\* marked dirty has been written: no dirty flag is left set.
C26_SignalFlush ==
  (pc = "exited" /\ exitKind = "signal") => (~progressDirty /\ ~configDirty)

\* the requests made so far for the chapter being read
SpokenHere ==
  Cardinality({i \in 1..Len(spoken) : spoken[i][1] = targetChapterIndex})

\* C27: the count of completed segments starts at 0 in every call of
\* handleRead, the calls for auto-advanced chapters included; when a
\* completion brings the count to a multiple of 20 and Progress is dirty,
\* Progress is written and the flag cleared; a completion at any other count
\* writes nothing.
C27_PeriodicSave ==
  [][/\ (pc = "rd_wait" /\ pc' # "rd_wait" /\ doneChan = "ok")
        => LET n == segmentsReadInSession + 1 IN
           /\ segmentsReadInSession' = n
           /\ n = SpokenHere
           /\ (n % 20 = 0 /\ progressDirty)
              => (diskProg' = progressData /\ ~progressDirty')
           /\ n % 20 # 0
              => (diskProg' = diskProg /\ progressDirty' = progressDirty)
     /\ (pc = "rd_valid" /\ pc' = "rd_loop") => segmentsReadInSession' = 0]_vars

\* the 20th segment of the second chapter, the 22nd of a read that began
\* in the first chapter and advanced by itself, has been completed and
\* written
C27_Witness ==
  /\ depth = 1 /\ targetChapterIndex = 1
  /\ segmentsReadInSession = 20
  /\ Len(spoken) = 22
  /\ pc = "rd_loop"
  /\ diskProg["l"] = Pos(1, 20)
  /\ ~progressDirty

EmptyHere == SegmentCount(activeNovel, targetChapterIndex) = 0

\* C29: while handleRead is in its loop or after it on a chapter without
\* segments, no request is made, Progress stays at the start of that
\* chapter, and the call leaves the loop only to its end: it goes on to the
\* next chapter or returns with the chapter (or the novel) complete, never
\* with an error.  No request is ever made for a chapter without segments.
C29_EmptyChapter ==
  [][/\ (pc \in {"rd_loop", "rd_after"} /\ EmptyHere)
        => /\ Cur = Pos(targetChapterIndex, startSegmentIndex)
           /\ spoken' = spoken \/ pc' = "off"
           /\ pc = "rd_loop" => pc' \in {"rd_loop", "rd_after", "exited"}
           /\ pc = "rd_after" => pc' \in {"rd_after", "rd_entry", "ret", "exited"}
           /\ pc' = "ret" => result' \in {"chapter_complete", "novel_complete"}
     /\ (Running /\ spoken' # spoken)
        => SegmentCount(activeNovel, Last(spoken')[1]) > 0]_vars

\* a read of the second chapter of "a", which has no body, has returned
\* with the chapter complete and nothing submitted
C29_Witness ==
  /\ pc = "exited" /\ exitKind = "return" /\ cmd = "read"
  /\ activeNovel = "a" /\ targetChapterIndex = 1
  /\ result = "chapter_complete"
  /\ spoken = <<>>
  /\ diskProg["a"] = Pos(1, 0)

\* handleRead is running
InRead == pc \in {"rd_entry", "rd_chg", "rd_chg2", "rd_valid", "rd_loop",
                  "rd_upd", "rd_wait", "rd_after"}

\* C30: every call of handleRead made by itself is for the chapter after
\* the one just read, so that the calls on the stack are never more than
\* the chapters from the first one read to the last of the novel; and,
\* every request made being answered, a read that has started comes to
\* its end (it returns, or the process ends).
C30_Terminates ==
  /\ [][(pc = "rd_after" /\ pc' = "rd_entry")
          => (args'[1] - 1 = targetChapterIndex + 1 /\ depth' = depth + 1)]_vars
  /\ [](InRead /\ startPos # NoPos
          => (/\ depth <= Len(Chapters) - 1 - startPos[1]
              /\ pc \notin {"rd_entry", "rd_chg", "rd_chg2", "rd_valid"}
                 => targetChapterIndex = startPos[1] + depth))
  /\ (InRead ~> ~InRead)

\* a read from the first chapter has gone through all three chapters, two
\* calls deep, and the process has returned
C30_Witness ==
  /\ pc = "exited" /\ exitKind = "return" /\ cmd = "read"
  /\ startPos[1] = 0 /\ depth = 2
  /\ result = "novel_complete"

\* q is in strictly increasing (chapter, segment) order
StrictlyIncreasing(q) ==
  \A i \in 1..(Len(q) - 1) :
    \/ q[i][1] < q[i + 1][1]
    \/ q[i][1] = q[i + 1][1] /\ q[i][2] < q[i + 1][2]

\* C31: within one read, next or prev invocation, whatever autoAdvance is,
\* the requests submitted so far are in strictly increasing (chapter,
\* segment) order, none at a position before the resolved start position,
\* and they are the first non-blank pieces from the start position on: none
\* between the start and the last submitted is left out, none is submitted
\* twice, and nothing is submitted before the start is resolved.
C31_SubmissionOrder ==
  (pc # "off" /\ cmd \in NarrationCmds)
  => /\ StrictlyIncreasing(spoken)
     /\ startPos = NoPos => spoken = <<>>
     /\ (startPos # NoPos /\ spoken # <<>>)
          => /\ StrictlyIncreasing(<<startPos, <<spoken[1][1], spoken[1][2] + 1>> >>)
             /\ IsPrefix(spoken, NarrationFrom(startPos[1], startPos[2]))
             /\ Len(spoken) > 1 => cfg.AutoReadNext

\* a read from (0, 0) has submitted the two paragraphs of the first
\* chapter, the whitespace-only piece between them passed over, and, the
\* second chapter having no body, the paragraph of the third
C31_Witness ==
  /\ cmd = "read" /\ pc = "rd_wait"
  /\ startPos = <<0, 0>>
  /\ spoken = << <<0, 0>>, <<0, 2>>, <<2, 0>> >>

\* C32: while a process lives, at every point the signal listener can come
\* in, a Progress map in memory that differs from progress.json is marked
\* dirty.
C32_DirtyFlag ==
  Running => (progressData # diskProg => progressDirty)

\* the requests started in the chapter of Progress at segments after the
\* durable one
StartedSinceDurable ==
  Cardinality({i \in 1..Len(spoken) :
                 /\ spoken[i][1] = Cur.ch
                 /\ spoken[i][2] > Durable(activeNovel).seg})

\* C33: at every moment of a read, next or prev invocation (the two field
\* writes of a chapter change, which the save of line 406 follows at once,
\* taken as one moment), the durable Progress of the active entry has the
\* chapterIndex of the Progress in memory and a segmentIndex not after it,
\* with at most 20 segments started since.
C33_BoundedStaleness ==
  (Running /\ cmd \in NarrationCmds /\ activeNovel # ""
     /\ activeNovel \in DOMAIN progressData /\ pc # "rd_chg2")
  => /\ Durable(activeNovel).ch = Cur.ch
     /\ Durable(activeNovel).seg <= Cur.seg
     /\ StartedSinceDurable <= SaveEvery

\* an argument-less read with autoAdvance off has resolved its start
ResumeRead ==
  /\ pc # "off" /\ cmd = "read" /\ args = <<>>
  /\ ~cfg.AutoReadNext /\ startPos # NoPos

\* C34 as stated: an argument-less read with autoAdvance off that starts at
\* Progress (c, k) and runs its loop to a return has spoken segment k, and
\* only it, and Progress is (c, k).
C34_Original ==
  (ResumeRead /\ result \in {"stopped", "chapter_complete"})
  => /\ spoken = <<startPos>>
     /\ Cur = Pos(startPos[1], startPos[2])

\* C34 amended: with autoAdvance off, an argument-less read that starts at
\* Progress (c, k).  If piece k is not empty after trimming, the read
\* submits piece k and nothing else, and Progress stays (c, k) in memory
\* and on disk throughout, also once k has completed: the next
\* argument-less read finds (c, k) again.  If piece k is empty after
\* trimming, the read submits the first non-empty piece k' > k of the
\* chapter and leaves Progress at (c, k'), or, there being none, submits
\* nothing and leaves Progress at (c, k).
C34_ResumeSameSegment ==
  ResumeRead
  => LET c == startPos[1]
         k == startPos[2]
         ps == PiecesFrom(c, k)
     IN /\ Len(spoken) <= 1
        /\ IF ps # <<>> /\ Head(ps) = k
           THEN /\ Cur = Pos(c, k)
                /\ Durable(activeNovel) = Pos(c, k)
                /\ spoken # <<>> => spoken = <<startPos>>
                /\ result \in LoopResults
                     => result \in {"stopped", "submit_failed", "speech_failed"}
                /\ result = "stopped" => spoken = <<startPos>>
           ELSE /\ spoken # <<>> => (spoken = << <<c, Head(ps)>> >> /\ Head(ps) > k)
                /\ result = "stopped"
                     => (spoken # <<>> /\ Cur = Pos(c, Head(ps)))
                /\ result = "chapter_complete"
                     => (ps = <<>> /\ spoken = <<>> /\ Cur = Pos(c, k))

\* segment 2 of the first chapter was found, spoken to its end and left as
\* the durable Progress
C34_Witness ==
  /\ ResumeRead /\ startPos = <<0, 2>>
  /\ pc = "exited" /\ exitKind = "return" /\ result = "stopped"
  /\ spoken = << <<0, 2>> >>
  /\ Durable(activeNovel) = Pos(0, 2)

\* the record of p in a Progress map, (-1, -1) standing for none
Rec(f, p) == IF p \in DOMAIN f THEN f[p] ELSE [ch |-> -1, seg |-> -1]

\* C35: no step of a read, next or prev process changes the Progress
\* record of an entry other than the active one, in memory or in
\* progress.json; no step of a list, chapters, where, config or switch
\* process changes any Progress record: the map in memory is the one loaded
\* and progress.json keeps every record.
C35_Frame ==
  [][/\ (cmd' \in NarrationCmds /\ pc' # "off")
          => \A p \in Paths \ {activeNovel'} :
               /\ Rec(diskProg', p) = Rec(diskProg, p)
               /\ Rec(progressData', p)
                    = IF pc = "off" THEN Rec(diskProg, p) ELSE Rec(progressData, p)
     /\ (cmd' \in {"list", "chapters", "where", "config", "switch"} /\ pc' # "off")
          => /\ diskProg' = diskProg
             /\ progressData' = IF pc = "off" THEN diskProg ELSE progressData
    ]_vars

\* a read of "a" has moved and written the Progress of "a" while "b" has a
\* record of its own
C35_Witness ==
  /\ pc = "exited" /\ exitKind = "return" /\ cmd = "read"
  /\ activeNovel = "a" /\ spoken # <<>>
  /\ DOMAIN diskProg = {"a", "b"}
  /\ diskProg["a"] = Pos(0, 2)
  /\ diskProg["b"] = Pos(0, 1)

\* C36: in a running process, from its start on and whatever commands
\* ran before, the pointer of cfg is "" or the path of a library entry and
\* activeNovel is that entry; a remove of the active entry leaves the
\* pointer at "", in memory and, after its return, in config.json; a read,
\* next, prev or chapters process that finds the pointer at "" submits
\* nothing and changes neither file.
C36_ActivePointer ==
  /\ [](Running
          => /\ activeNovel = cfg.ActiveNovelPath
             /\ activeNovel = "" \/ activeNovel \in DOMAIN cfg.Novels)
  /\ [][/\ (pc = "off" /\ cmd' = "remove" /\ pc' = "ret"
              /\ LoadedCfg.ActiveNovelPath \notin DOMAIN cfg'.Novels)
             => (cfg'.ActiveNovelPath = "" /\ activeNovel' = "" /\ configDirty')
        /\ (cmd = "remove" /\ pc = "ret_cfg" /\ exitKind' = "return")
             => diskCfg' = cfg
        /\ (cmd' \in NarrationCmds \cup {"chapters"} /\ pc' # "off"
              /\ diskCfg.ActiveNovelPath = "")
             => /\ activeNovel' = ""
                /\ spoken' = <<>>
                /\ diskCfg' = diskCfg
                /\ diskProg' = diskProg
       ]_vars

\* the active entry "a" was removed from a library of two, and a read that
\* followed found no active entry and returned: "b" and its Progress are
\* as they were
C36_Witness ==
  /\ pc = "exited" /\ exitKind = "return" /\ cmd = "read"
  /\ result = "no_novel" /\ spoken = <<>>
  /\ diskCfg.ActiveNovelPath = ""
  /\ DOMAIN diskCfg.Novels = {"b"}
  /\ DOMAIN diskProg = {"b"}

SplitTest(f, line) == MatchString(f, line)
DetectTest(f, line) == TrimSpace(line) # <<>> /\ MatchString(f, TrimSpace(line))

\* C39: when ParseNovel has been called with an expression DetectFormat
\* returned for the file, it has found at least one chapter, and on every
\* line of the file the expression has given ParseNovel, on the raw line,
\* the answer it gave DetectFormat on the trimmed line.
C39_SameHeadingTest ==
  (regexName # "" /\ \E i \in 1..Len(runs) : runs[i] = regexName)
  => /\ chapters # <<>>
     /\ \A i \in 1..Len(ScanLines(doc)) :
          SplitTest(regexName, ScanLines(doc)[i])
            = DetectTest(regexName, ScanLines(doc)[i])

====
